---- MODULE Spec2Model ----
(***************************************************************************)
(* Spin orchestration of the slot-machine client (SlotMachine component    *)
(* and the Home page state it drives), modelled as a timed state machine.  *)
(* Every handler or continuation between two suspension points of the      *)
(* source is one atomic step; timers carry their remaining delay in        *)
(* milliseconds and time advances to the next deadline.                    *)
(***************************************************************************)
EXTENDS Integers, Sequences, FiniteSets, TLC

\* ------------------------------------------------------------------ bounds
NumReels == 3
NumRows == 2
MaxRounds == 2
MaxPresses == 3
MaxWheelSpins == 2
MaxFreeSpins == 1
MaxAutoSpins == 2
FastLatency == 1
SlowLatency == 700
SessionLatency == 1
WinLimit == 1
LossLimit == 100
NoLimit == 1000
WheelWin == 10
ExtraSpins == 1
ConfigLatency == 1

\* ------------------------------------------------------- program constants
NumPaylines == 5
DefaultBalance == 500
BounceTime == 300
WinAnimDuration == 5000
WinAnimFadeOut == 500
FeatureSpinTicks == 50
FeatureSpinInterval == 80
FeatureRevealPause == 500
FeatureDisplayTime == 3000

Reels == 0 .. (NumReels - 1)
Rows == 0 .. (NumRows - 1)

AllFalse == [i \in Reels |-> FALSE]

TotalBet == 1

\* per-mode delays of spin()
StartDelay(turbo) == IF turbo THEN 0 ELSE 10
MinSpinTime(turbo) == IF turbo THEN 200 ELSE 600
StopBaseDelay(turbo) == IF turbo THEN 5 ELSE 40
StopIncrementDelay(turbo) == IF turbo THEN 2 ELSE 20
GridUpdateDelay(turbo) == IF turbo THEN 2 ELSE 20
SettleDelay(turbo) == IF turbo THEN 200 ELSE 500
ShowGridDelay(turbo) == IF turbo THEN 500 ELSE 1000
PreExpandDelay(turbo) == IF turbo THEN 500 ELSE 1000
ExpandPreDelay(turbo) == IF turbo THEN 100 ELSE 300
ExpandPostDelay(turbo) == IF turbo THEN 200 ELSE 400
PostExpandDelay(turbo) == IF turbo THEN 500 ELSE 1000
FeatureDwell(turbo) == IF turbo THEN 1000 ELSE 2000
NoFeatureDwell(turbo) == IF turbo THEN 500 ELSE 1000

\* ------------------------------------------------------------ game values
PremiumSymbols == {"Queen", "Stone", "Leopard", "Wolf"}

ExpansionThreshold(sym) == IF sym \in PremiumSymbols THEN 2 ELSE 3

Column(sym) == [w \in Rows |-> sym]

InitialGrid == [i \in Reels |-> Column("Ten")]

\* two server grids that differ in every column
GridA == [i \in Reels |-> [w \in Rows |-> IF w = 0 THEN "Ten" ELSE "Queen"]]
GridB == [i \in Reels |-> [w \in Rows |-> IF w = 0 THEN "Scatter" ELSE "Ten"]]

BaseLine == [paylineIndex |-> 0, symbol |-> "Ten", count |-> 2, payout |-> 3, line |-> [i \in Reels |-> 0]]
InactiveLine == [paylineIndex |-> 5, symbol |-> "Ten", count |-> 2, payout |-> 3, line |-> [i \in Reels |-> 0]]
FeatureLine == [paylineIndex |-> 1, symbol |-> "Queen", count |-> 2, payout |-> 4, line |-> [i \in Reels |-> 1]]

ScatterLine(n) == [paylineIndex |-> -1, symbol |-> "Scatter", count |-> n, payout |-> 0, line |-> <<>>]

NoResponse == [kind |-> "none"]

\* an optional response field the server left out
Absent == -1

\* time a request spends on the network
Latencies == {FastLatency, SlowLatency}

\* expandedSymbols of a response: the first n reels, one cell each
ExpandedCells(n) == [k \in 1 .. n |-> [reel |-> k - 1, row |-> 0]]

\* --------------------------------------------------------- server answers
\* PlayResponse as the client reads it (player.* and top-level fields)
Resp(bal, fsr, win, sym, nExp, fl, trig, act, g) ==
  [kind |-> "play",
   balance |-> bal,
   freeSpinsRemaining |-> fsr,
   playerFeatureSymbol |-> sym,
   lastWin |-> IF win THEN 3 ELSE 0,
   totalWin |-> IF win THEN 3 ELSE 0,
   grid |-> g,
   winningLines |-> IF win THEN <<BaseLine, InactiveLine>> ELSE <<>>,
   scatterWin |-> [count |-> IF trig THEN 3 ELSE 0, triggeredFreeSpins |-> trig],
   actionGameTriggered |-> act,
   actionGameSpins |-> IF act THEN 1 ELSE 0,
   accumulatedActionGameWin |-> 0,
   featureSymbol |-> sym,
   expandedSymbols |-> ExpandedCells(nExp),
   featureGameWinningLines |-> IF fl THEN <<FeatureLine>> ELSE <<>>,
   freeSpins |-> fsr]

PlayResponses ==
  { Resp(7, 0, FALSE, "", 0, FALSE, FALSE, FALSE, GridA),
    Resp(0, 0, FALSE, "", 0, FALSE, FALSE, FALSE, GridB),
    Resp(7, 0, TRUE, "", 0, FALSE, FALSE, FALSE, GridB),
    Resp(7, MaxFreeSpins, FALSE, "Queen", 0, FALSE, TRUE, FALSE, GridB),
    Resp(7, MaxFreeSpins, FALSE, "Queen", 0, FALSE, FALSE, FALSE, GridA),
    Resp(7, 0, TRUE, "Queen", 2, TRUE, FALSE, FALSE, GridB),
    Resp(7, MaxFreeSpins, FALSE, "Queen", 2, FALSE, FALSE, FALSE, GridA),
    Resp(7, 0, FALSE, "Ten", 2, TRUE, FALSE, FALSE, GridA) }

\* SessionResponse fields read by initializeGame
SessionResponses ==
  { [balance |-> 7, freeSpins |-> 0, featureSymbol |-> "", actionGameSpins |-> 0, accumulatedActionGameWin |-> 0],
    [balance |-> 0, freeSpins |-> 0, featureSymbol |-> "", actionGameSpins |-> 0, accumulatedActionGameWin |-> 0],
    [balance |-> 7, freeSpins |-> MaxFreeSpins, featureSymbol |-> "Queen", actionGameSpins |-> 0, accumulatedActionGameWin |-> 0] }

\* null of selectedSegment and of pendingBalanceUpdateRef
NoSegment == -1
NoBalance == -1

\* ------------------------------------------------------------------ state
VARIABLES
  st,        \* React state and refs of SlotMachine and Home
  rounds,    \* one record per accepted spin(): its position and closure
  timers,    \* pending setTimeout callbacks in creation order
  session,   \* "pending" while getSession is in flight, then "done" or "failed"
  wheels,    \* one record per started ActionWheel.handleSpin(): position and closure
  api        \* one record per GameApiService call made on its own: fetches and outcome

vars == <<st, rounds, timers, session, wheels, api>>

\* useState initial values of SlotMachine (1304-1372, 1480-1488) and Home
InitSt ==
  [grid |-> InitialGrid,
   spinningReels |-> AllFalse,
   bouncingReels |-> AllFalse,
   expandingReels |-> AllFalse,
   balance |-> DefaultBalance,
   lastWin |-> 0,
   winningLines |-> <<>>,
   baseGameWinningLines |-> <<>>,
   featureGameWinningLines |-> <<>>,
   sessionId |-> TRUE,
   freeSpinsRemaining |-> 0,
   featureSymbol |-> "",
   reelsToExpand |-> <<>>,
   showFeatureGameWins |-> FALSE,
   winningFeedback |-> 0,
   spinCancelled |-> FALSE,
   showActionWheel |-> FALSE,
   actionGameSpins |-> 0,
   accumulatedActionWin |-> 0,
   showFeatureSymbolSelection |-> FALSE,
   selectedFeatureSymbol |-> "",
   freeSpinsCount |-> 0,
   spinningSymbol |-> "",
   showSymbol |-> FALSE,
   isTurboMode |-> FALSE,
   wheelInstance |-> 0,
   wheelSpinning |-> FALSE,
   currentSegment |-> 0,
   selectedSegment |-> NoSegment,
   spinResult |-> "",
   actionGameWinMessage |-> "",
   actionGameWinAmount |-> 0,
   actionGamesFinished |-> FALSE,
   pendingBalance |-> NoBalance,
   autoplay |-> [isActive |-> FALSE, settings |-> [numberOfSpins |-> 0], spinsRemaining |-> 0, originalBalance |-> 0],
   config |-> [loaded |-> TRUE,
               fields |-> {"gameName", "numReels", "numRows", "betAmounts",
                           "freeSpinsAwarded", "symbols", "paylines"}],
   configLoading |-> FALSE,
   configError |-> "",
   betAmount |-> TotalBet,
   betAmounts |-> <<TotalBet>>,
   toast |-> ""]

IsFreeSpinsMode(s) == s.freeSpinsRemaining > 0

IsSpinning(s) == \E i \in Reels : s.spinningReels[i]

\* mutant: the feature symbol overlay left out of the busy flag
IsAnimatingWithoutOverlay(s) ==
  \/ IsSpinning(s)
  \/ s.winningFeedback # 0
  \/ \E i \in Reels : s.expandingReels[i]
  \/ \E i \in Reels : s.bouncingReels[i]
  \/ s.showActionWheel
  \/ s.showFeatureGameWins

IsAnimating(s) ==
  \/ IsSpinning(s)
  \/ s.winningFeedback # 0
  \/ \E i \in Reels : s.expandingReels[i]
  \/ \E i \in Reels : s.bouncingReels[i]
  \/ s.showFeatureSymbolSelection
  \/ s.showActionWheel
  \/ s.showFeatureGameWins

\* ------------------------------------------------ spin(): response reading
\* reelsToExpandArray: the distinct reels of expandedSymbols, in first-seen order
RECURSIVE UniqueReels(_, _)
UniqueReels(cells, acc) ==
  IF cells = <<>> THEN acc
  ELSE IF \E k \in 1 .. Len(acc) : acc[k] = Head(cells).reel
       THEN UniqueReels(Tail(cells), acc)
       ELSE UniqueReels(Tail(cells), Append(acc, Head(cells).reel))

ReelsToExpandArray(resp) ==
  IF Len(resp.expandedSymbols) > 0 /\ resp.featureSymbol # ""
  THEN UniqueReels(resp.expandedSymbols, <<>>)
  ELSE <<>>

ActiveLine(line) == line.paylineIndex = -1 \/ line.paylineIndex < NumPaylines

\* baseGameLines without the filter on the active paylines
BaseGameLinesUnfiltered(resp) == resp.winningLines

\* baseGameLines as computed right after the response (both branches filter alike)
BaseGameLines(resp) == SelectSeq(resp.winningLines, ActiveLine)

\* featureGameLines: only in free-spin mode with a feature symbol
FeatureGameLines(resp, fs) ==
  IF fs /\ resp.featureSymbol # ""
  THEN SelectSeq(resp.featureGameWinningLines, ActiveLine)
  ELSE <<>>

\* free-spin branch: the scatter entry pushed onto baseGameLines
FreeSpinBaseLines(resp) ==
  IF (resp.scatterWin.triggeredFreeSpins \/ resp.scatterWin.count > 0) /\ resp.featureSymbol # "Scatter"
  THEN Append(BaseGameLines(resp), ScatterLine(resp.scatterWin.count))
  ELSE BaseGameLines(resp)

\* normal-game branch: the scatter entry pushed onto newWinningLines
NormalWinningLines(resp) ==
  IF resp.scatterWin.triggeredFreeSpins
  THEN Append(BaseGameLines(resp), ScatterLine(resp.scatterWin.count))
  ELSE BaseGameLines(resp)

WillExpand(resp) ==
  /\ Len(ReelsToExpandArray(resp)) >= ExpansionThreshold(resp.featureSymbol)
  /\ resp.featureSymbol # ""

ExpandingFlags(resp) ==
  [i \in Reels |-> \E k \in 1 .. Len(ReelsToExpandArray(resp)) : ReelsToExpandArray(resp)[k] = i]

\* ------------------------------------------- spin(): continuation segments
\* each segment runs from a resumption to the next await (or to the return)
\* and yields the new state, the next position and the delay awaited
Ret(s, pc, i, d, out) == [st |-> s, pc |-> pc, i |-> i, delay |-> d, outcome |-> out]

Returned(s, out) == Ret(s, "done", 0, -1, out)

\* accumulatedActionGameWin ?? 0: an absent value reads as 0
BackendAccumulatedWin(resp) ==
  IF resp.accumulatedActionGameWin = Absent THEN 0 ELSE resp.accumulatedActionGameWin

\* Home.handleActionWheelStateChange
HandleActionWheelStateChange(s, showWheel, spins, accumulatedWin) ==
  [s EXCEPT !.showActionWheel = showWheel,
            !.actionGameSpins = spins,
            !.accumulatedActionWin = accumulatedWin]

\* action wheel part of the state update after a round
ActionWheelUpdate(s, r) ==
  LET resp == r.resp
      acc == BackendAccumulatedWin(resp)
  IN IF r.fs
     THEN IF resp.actionGameTriggered
          THEN HandleActionWheelStateChange(s, FALSE, resp.actionGameSpins, acc)
          ELSE s
     ELSE IF resp.actionGameTriggered
          THEN HandleActionWheelStateChange(s, ~resp.scatterWin.triggeredFreeSpins, resp.actionGameSpins, acc)
          ELSE HandleActionWheelStateChange(s, FALSE, resp.actionGameSpins, acc)

\* free spins just completed: open the wheel when spins or wins are outstanding
FreeSpinsCompletedUpdate(s, r) ==
  LET resp == r.resp
  IN IF r.prevFS > 0 /\ resp.freeSpinsRemaining = 0
        /\ (resp.actionGameSpins > 0 \/ BackendAccumulatedWin(resp) > 0)
     THEN HandleActionWheelStateChange(s, TRUE, resp.actionGameSpins, BackendAccumulatedWin(resp))
     ELSE s

\* feature symbol selection overlay or win feedback
NotificationUpdate(s, r) ==
  LET resp == r.resp
  IN IF resp.scatterWin.triggeredFreeSpins /\ resp.featureSymbol # "" /\ ~r.fs
     THEN [s EXCEPT !.showFeatureSymbolSelection = TRUE,
                    !.selectedFeatureSymbol = resp.featureSymbol,
                    !.freeSpinsCount = resp.freeSpins]
     ELSE LET s1 == IF resp.actionGameTriggered /\ ~r.fs /\ ~resp.scatterWin.triggeredFreeSpins
                    THEN [s EXCEPT !.toast = "Action Game!"]
                    ELSE s
          IN IF resp.lastWin > 0
             THEN [s1 EXCEPT !.winningFeedback = resp.lastWin]
             ELSE s1

\* "Update state from response" up to the return of the results
ApplyResponse(s, r) ==
  IF s.spinCancelled THEN Returned(s, "cancelled")
  ELSE LET s1 == [s EXCEPT !.balance = r.resp.balance,
                           !.freeSpinsRemaining = r.resp.freeSpinsRemaining,
                           !.featureSymbol = r.resp.playerFeatureSymbol,
                           !.lastWin = r.resp.lastWin]
       IN Returned(NotificationUpdate(FreeSpinsCompletedUpdate(ActionWheelUpdate(s1, r), r), r), "applied")

\* synchronous head of spin(): cancel the ongoing round, clear animation state
ClearForSpin(s) ==
  [s EXCEPT !.spinCancelled = TRUE,
            !.lastWin = 0,
            !.winningLines = <<>>,
            !.baseGameWinningLines = <<>>,
            !.featureGameWinningLines = <<>>,
            !.showFeatureGameWins = FALSE,
            !.reelsToExpand = <<>>,
            !.winningFeedback = 0,
            !.expandingReels = AllFalse,
            !.bouncingReels = AllFalse,
            !.spinningReels = AllFalse]

\* after the setTimeout(0): reset the flag, start reel 0, send the request
AfterYield(s, r) ==
  LET s1 == [s EXCEPT !.spinCancelled = FALSE]
      s2 == [s1 EXCEPT !.spinningReels[0] = TRUE]
  IN Ret(s2, "awaitPlay", 0, -1, "")

\* betPerPayline of the parent component: betAmount / numPaylines, kept as a
\* fraction
BetPerPayline == [num |-> TotalBet, den |-> 5]

\* the request with the bonus-spin count sent in free-spin mode too
PlayRequestInFreeSpins(r) ==
  [betAmount |-> TotalBet,
   numPaylines |-> NumPaylines,
   betPerPayline |-> BetPerPayline,
   actionGameSpins |-> IF r.ags > 0 THEN r.ags ELSE Absent]

\* the playGame request, built from the values spin() closed over
PlayRequest(r) ==
  [betAmount |-> TotalBet,
   numPaylines |-> NumPaylines,
   betPerPayline |-> BetPerPayline,
   actionGameSpins |-> IF ~r.fs /\ r.ags > 0 THEN r.ags ELSE Absent]

\* startReelsSequentially resumed after the stagger delay of reel i
StaggerNext(s, i) ==
  IF i + 1 < NumReels /\ ~s.spinCancelled
  THEN [st |-> [s EXCEPT !.spinningReels[i + 1] = TRUE], more |-> TRUE]
  ELSE [st |-> s, more |-> FALSE]

\* reel-stop loop head for reel i
StopLoopHead(s, r, i) ==
  IF s.spinCancelled
  THEN Returned([s EXCEPT !.spinningReels = AllFalse], "cancelled")
  ELSE Ret(s, "stopDelay", i, StopBaseDelay(r.turbo) + i * StopIncrementDelay(r.turbo), "")

\* after the minimum spin time
AfterMinWait(s, r) ==
  IF s.spinCancelled THEN Returned(s, "cancelled")
  ELSE StopLoopHead([s EXCEPT !.winningLines = <<>>, !.showFeatureGameWins = FALSE], r, 0)

\* playGame resolved
OnResponse(s, r) ==
  LET s1 == [s EXCEPT !.reelsToExpand = ReelsToExpandArray(r.resp)]
  IN IF s1.spinCancelled THEN Returned(s1, "cancelled")
     ELSE IF MinSpinTime(r.turbo) - r.lat > 0 THEN Ret(s1, "minWait", 0, MinSpinTime(r.turbo) - r.lat, "")
     ELSE AfterMinWait(s1, r)

\* playGame rejected: the catch block
OnReject(s, r) ==
  LET s1 == IF ~s.spinCancelled THEN [s EXCEPT !.toast = "Connection Error"] ELSE s
  IN Returned([s1 EXCEPT !.spinningReels = AllFalse], "failed")

\* after the stop delay of reel i: show the server's column
AfterStopDelay(s, r) ==
  IF s.spinCancelled
  THEN Returned([s EXCEPT !.spinningReels = AllFalse], "cancelled")
  ELSE Ret([s EXCEPT !.grid[r.i] = r.resp.grid[r.i]], "gridDelay", r.i, GridUpdateDelay(r.turbo), "")

\* after the grid delay of reel i: bounce, stop the reel, go on
AfterGridDelay(s, r) ==
  LET s1 == [s EXCEPT !.bouncingReels[r.i] = TRUE, !.spinningReels[r.i] = FALSE]
  IN IF r.i + 1 < NumReels THEN StopLoopHead(s1, r, r.i + 1)
     ELSE IF s1.spinCancelled THEN Returned(s1, "cancelled")
     ELSE Ret(s1, "settle", 0, SettleDelay(r.turbo), "")

\* free-spin branch after the base display: expansion or plain result
AfterBaseShown(s, r) ==
  LET s1 == [s EXCEPT !.showFeatureGameWins = FALSE]
  IN IF WillExpand(r.resp)
     THEN Ret(s1, "preExpand", 0, PreExpandDelay(r.turbo), "")
     ELSE ApplyResponse(s1, r)

\* after the settle delay: show the base-game result
AfterSettle(s, r) ==
  IF s.spinCancelled THEN Returned(s, "cancelled")
  ELSE IF r.fs
  THEN LET s1 == IF WillExpand(r.resp)
                 THEN [s EXCEPT !.expandingReels = ExpandingFlags(r.resp)]
                 ELSE s
       IN IF Len(FreeSpinBaseLines(r.resp)) > 0
          THEN AfterBaseShown([s1 EXCEPT !.winningLines = FreeSpinBaseLines(r.resp),
                                         !.baseGameWinningLines = FreeSpinBaseLines(r.resp)], r)
          ELSE Ret(s1, "showGrid", 0, ShowGridDelay(r.turbo), "")
  ELSE ApplyResponse([s EXCEPT !.winningLines = NormalWinningLines(r.resp)], r)

\* expansion loop head for the k-th reel of reelsToExpandArray
ExpandLoopHead(s, r, k) ==
  IF s.spinCancelled
  THEN Returned([s EXCEPT !.expandingReels = AllFalse], "cancelled")
  ELSE Ret(s, "expandA", k, ExpandPreDelay(r.turbo), "")

AfterPreExpand(s, r) == ExpandLoopHead(s, r, 1)

\* replace the reel's cells by the feature symbol
AfterExpandA(s, r) ==
  IF s.spinCancelled
  THEN Returned([s EXCEPT !.expandingReels = AllFalse], "cancelled")
  ELSE LET reelIndex == ReelsToExpandArray(r.resp)[r.i]
       IN Ret([s EXCEPT !.grid = [idx \in Reels |-> IF idx = reelIndex
                                                   THEN Column(r.resp.featureSymbol)
                                                   ELSE s.grid[idx]]],
              "expandB", r.i, ExpandPostDelay(r.turbo), "")

AfterExpandB(s, r) ==
  IF s.spinCancelled
  THEN Returned([s EXCEPT !.expandingReels = AllFalse], "cancelled")
  ELSE IF r.i < Len(ReelsToExpandArray(r.resp)) THEN ExpandLoopHead(s, r, r.i + 1)
  ELSE Ret(s, "postExpand", 0, PostExpandDelay(r.turbo), "")

\* show the feature-game wins and hold them
AfterPostExpand(s, r) ==
  IF s.spinCancelled
  THEN Returned([s EXCEPT !.expandingReels = AllFalse], "cancelled")
  ELSE LET s1 == [s EXCEPT !.showFeatureGameWins = TRUE, !.expandingReels = AllFalse]
           fl == FeatureGameLines(r.resp, r.fs)
       IN IF Len(fl) > 0
          THEN Ret([s1 EXCEPT !.featureGameWinningLines = fl, !.winningLines = fl],
                   "dwell", 0, FeatureDwell(r.turbo), "")
          ELSE Ret([s1 EXCEPT !.winningLines = <<>>, !.featureGameWinningLines = <<>>],
                   "dwell", 0, NoFeatureDwell(r.turbo), "")

AfterDwell(s, r) ==
  IF s.spinCancelled THEN Returned(s, "cancelled")
  ELSE ApplyResponse([s EXCEPT !.showFeatureGameWins = FALSE], r)

\* the segment a round timer resumes
Resume(s, r) ==
  CASE r.pc = "yield" -> AfterYield(s, r)
    [] r.pc = "minWait" -> AfterMinWait(s, r)
    [] r.pc = "stopDelay" -> AfterStopDelay(s, r)
    [] r.pc = "gridDelay" -> AfterGridDelay(s, r)
    [] r.pc = "settle" -> AfterSettle(s, r)
    [] r.pc = "showGrid" -> AfterBaseShown(s, r)
    [] r.pc = "preExpand" -> AfterPreExpand(s, r)
    [] r.pc = "expandA" -> AfterExpandA(s, r)
    [] r.pc = "expandB" -> AfterExpandB(s, r)
    [] r.pc = "postExpand" -> AfterPostExpand(s, r)
    [] r.pc = "dwell" -> AfterDwell(s, r)

\* ------------------------------------------------------------------ timers
Timer(kind, id, i, left) == [kind |-> kind, id |-> id, i |-> i, left |-> left]

HasDue(ts) == \E k \in 1 .. Len(ts) : ts[k].left = 0

\* setTimeout callbacks run in deadline order, ties in creation order
FirstDue(ts) == CHOOSE k \in 1 .. Len(ts) : ts[k].left = 0 /\ \A j \in 1 .. (k - 1) : ts[j].left # 0

RemoveAt(ts, k) == SubSeq(ts, 1, k - 1) \o SubSeq(ts, k + 1, Len(ts))

DropKind(ts, kind) == LET Keep(t) == t.kind # kind IN SelectSeq(ts, Keep)

\* ------------------------------------------------------------------ rounds
NewRound(s, auto) ==
  [pc |-> "yield", i |-> 0, outcome |-> "",
   fs |-> IsFreeSpinsMode(s), prevFS |-> s.freeSpinsRemaining,
   turbo |-> s.isTurboMode, ags |-> s.actionGameSpins,
   resp |-> NoResponse, lat |-> 0, auto |-> auto,
   ap |-> IF auto THEN s.autoplay ELSE InitSt.autoplay, bal |-> IF auto THEN s.balance ELSE 0]

Live(r) == r.pc # "done"

\* a round's position after a segment
Moved(r, res) ==
  IF res.pc = "done"
  THEN [pc |-> "done", i |-> 0, outcome |-> res.outcome, fs |-> FALSE, prevFS |-> 0,
        turbo |-> r.turbo, ags |-> 0, resp |-> NoResponse, lat |-> 0, auto |-> FALSE,
        ap |-> InitSt.autoplay, bal |-> 0]
  ELSE [r EXCEPT !.pc = res.pc, !.i = res.i]

\* guards of spin()
SpinVerdict(s) ==
  IF IsFreeSpinsMode(s) /\ IsAnimating(s) THEN "busy"
  ELSE IF ~IsFreeSpinsMode(s) /\ IsSpinning(s) THEN "busy"
  ELSE IF ~s.sessionId THEN "nosession"
  ELSE IF s.balance < TotalBet /\ s.freeSpinsRemaining = 0 /\ s.actionGameSpins = 0 THEN "insufficient"
  ELSE "accepted"

\* what the "S" key does
KeySVerdict(s) ==
  IF s.showActionWheel /\ s.actionGameSpins > 0 THEN "wheel"
  ELSE IF ~IsAnimating(s) /\ s.sessionId /\ ~s.showActionWheel
  THEN IF s.balance >= TotalBet \/ s.freeSpinsRemaining > 0 \/ s.actionGameSpins > 0
       THEN SpinVerdict(s)
       ELSE "ignored"
  ELSE "ignored"

\* ---------------------------------------------------------------- autoplay
NoSettings == [numberOfSpins |-> 0]

\* the dialog's settings: a run without stop conditions, and one run for each
\* stop condition switched on
PlainSettings(n) ==
  [numberOfSpins |-> n, stopOnAnyWin |-> FALSE, stopOnSingleWinExceeds |-> NoLimit,
   stopOnFeature |-> FALSE, stopOnTotalLossExceeds |-> NoLimit]

AutoplaySettings ==
  { PlainSettings(n) : n \in 1 .. MaxAutoSpins }
    \cup { [PlainSettings(MaxAutoSpins) EXCEPT !.stopOnAnyWin = TRUE],
           [PlainSettings(MaxAutoSpins) EXCEPT !.stopOnSingleWinExceeds = WinLimit],
           [PlainSettings(MaxAutoSpins) EXCEPT !.stopOnFeature = TRUE],
           [PlainSettings(MaxAutoSpins) EXCEPT !.stopOnTotalLossExceeds = LossLimit] }

AutoplayDelay(turbo) == IF turbo THEN 500 ELSE 1000

StartAutoplayState(s, settings) ==
  [s EXCEPT !.autoplay = [isActive |-> TRUE, settings |-> settings,
                          spinsRemaining |-> settings.numberOfSpins,
                          originalBalance |-> s.balance],
            !.toast = "Autoplay Started"]

StopAutoplayState(s) ==
  [s EXCEPT !.autoplay = [isActive |-> FALSE, settings |-> NoSettings,
                          spinsRemaining |-> 0, originalBalance |-> 0],
            !.toast = "Autoplay Stopped"]

\* checkAutoplayStopConditions, evaluated on the autoplay state and balance
\* its closure captured
CheckAutoplayStopConditions(ap, bal, totalWin, triggered) ==
  IF ~ap.isActive \/ ap.settings = NoSettings THEN FALSE
  ELSE \/ ap.settings.stopOnAnyWin /\ totalWin > 0
       \/ totalWin > ap.settings.stopOnSingleWinExceeds
       \/ ap.settings.stopOnFeature /\ triggered
       \/ ap.originalBalance - bal > ap.settings.stopOnTotalLossExceeds

\* mutant: the autoplay state left out of the dependencies
AutoplayDepsWithoutState(s) ==
  <<IsAnimating(s), s.balance, s.freeSpinsRemaining, s.actionGameSpins,
    s.isTurboMode, s.sessionId>>

\* the values whose change re-runs the autoplay effect
AutoplayDeps(s) ==
  <<s.autoplay, IsAnimating(s), s.balance, s.freeSpinsRemaining, s.actionGameSpins,
    s.isTurboMode, s.sessionId>>

\* body of the autoplay effect
AutoplayEffectBody(s, ts) ==
  IF ~s.autoplay.isActive \/ s.autoplay.settings = NoSettings THEN [st |-> s, timers |-> ts]
  ELSE IF s.autoplay.spinsRemaining <= 0 THEN [st |-> StopAutoplayState(s), timers |-> ts]
  ELSE IF s.balance < TotalBet /\ ~IsFreeSpinsMode(s) /\ s.actionGameSpins = 0
  THEN [st |-> StopAutoplayState(s), timers |-> ts]
  ELSE IF ~IsAnimating(s) /\ (s.balance >= TotalBet \/ IsFreeSpinsMode(s) \/ s.actionGameSpins > 0)
  THEN [st |-> s, timers |-> Append(ts, Timer("autoplay", 0, 0, AutoplayDelay(s.isTurboMode)))]
  ELSE [st |-> s, timers |-> ts]

\* WinAnimation mounts with the feedback and unmounts when it is cleared
WinAnimationEffect(old, s, ts) ==
  IF s.winningFeedback = old.winningFeedback THEN ts
  ELSE IF s.winningFeedback # 0
  THEN Append(DropKind(ts, "winAnim"), Timer("winAnim", 0, 0, WinAnimDuration))
  ELSE DropKind(ts, "winAnim")

\* FeatureSymbolSelection: the time the interval takes to reach totalSpins
FeatureCycleTime == FeatureSpinTicks * FeatureSpinInterval

\* the useState values of Home: a change re-renders Home, which hands a new
\* onComplete function to the overlay
HomeState(s) ==
  <<s.betAmount, s.showActionWheel, s.actionGameSpins, s.accumulatedActionWin,
    s.actionGameWinMessage, s.actionGameWinAmount, s.actionGamesFinished,
    s.showFeatureSymbolSelection, s.selectedFeatureSymbol, s.freeSpinsCount,
    IsFreeSpinsMode(s), s.featureSymbol, s.showFeatureGameWins>>

\* the effect of FeatureSymbolSelection runs when the overlay mounts and when
\* selectedSymbol or onComplete change
FeatureSelectionRuns(old, s) ==
  /\ s.showFeatureSymbolSelection
  /\ ~old.showFeatureSymbolSelection \/ HomeState(old) # HomeState(s)

\* the cleanup clears the interval (never the timeouts), the body starts a new
\* one; the ticks before the last one only change the cycling symbol
FeatureSelectionEffect(old, s, ts) ==
  IF FeatureSelectionRuns(old, s)
  THEN Append(DropKind(ts, "featureCycle"), Timer("featureCycle", 0, 0, FeatureCycleTime))
  ELSE IF ~s.showFeatureSymbolSelection THEN DropKind(ts, "featureCycle")
  ELSE ts

\* what the overlay shows: cycling symbols from the start of the effect, and
\* nothing once it is unmounted
FeatureSelectionDisplay(old, s) ==
  IF FeatureSelectionRuns(old, s)
  THEN [s EXCEPT !.spinningSymbol = "cycling", !.showSymbol = FALSE]
  ELSE IF ~s.showFeatureSymbolSelection
  THEN [s EXCEPT !.spinningSymbol = "", !.showSymbol = FALSE]
  ELSE s

\* MiddleSection renders ActionWheel only while the wheel is shown and the
\* feature symbol overlay is not
WheelMounted(s) == s.showActionWheel /\ ~s.showFeatureSymbolSelection

\* a newly mounted ActionWheel starts from its useState initial values
WheelMount(old, s) ==
  IF WheelMounted(s) /\ ~WheelMounted(old)
  THEN [s EXCEPT !.wheelInstance = s.wheelInstance + 1,
                 !.wheelSpinning = FALSE,
                 !.currentSegment = 0,
                 !.selectedSegment = NoSegment,
                 !.spinResult = ""]
  ELSE s

\* the re-render after a handler: effects whose dependencies changed run
Render(old, s, ts) ==
  LET ts1 == FeatureSelectionEffect(old, s, WinAnimationEffect(old, s, ts))
      s1 == FeatureSelectionDisplay(old, WheelMount(old, s))
  IN IF AutoplayDeps(old) = AutoplayDeps(s1) THEN [st |-> s1, timers |-> ts1]
     ELSE AutoplayEffectBody(s1, DropKind(ts1, "autoplay"))

\* mutant: a round that returns no result stops autoplay
AutoplayThenStoppingOnNull(s, r, outcome, resp) ==
  IF outcome # "applied"
     \/ CheckAutoplayStopConditions(r.ap, r.bal, resp.totalWin, resp.scatterWin.triggeredFreeSpins)
  THEN StopAutoplayState(s)
  ELSE [s EXCEPT !.autoplay.spinsRemaining = s.autoplay.spinsRemaining - 1]

\* the .then() of the autoplay timer's spin(): stop or count the spin
AutoplayThen(s, r, outcome, resp) ==
  IF outcome = "applied"
     /\ CheckAutoplayStopConditions(r.ap, r.bal, resp.totalWin, resp.scatterWin.triggeredFreeSpins)
  THEN StopAutoplayState(s)
  ELSE [s EXCEPT !.autoplay.spinsRemaining = s.autoplay.spinsRemaining - 1]

\* ----------------------------------------------------------------- actions
\* a handler starts with no notification of its own
Cur == [st EXCEPT !.toast = ""]

Init ==
  /\ st = InitSt
  /\ rounds = <<>>
  /\ timers = <<Timer("session", 0, 0, SessionLatency)>>
  /\ session = "pending"
  /\ wheels = <<>>
  /\ api = <<>>

\* accepted spin(): the new round waits on its setTimeout(0)
AcceptSpinWithin(auto, n) ==
  /\ Len(rounds) + Len(wheels) < n
  /\ LET fin == Render(st, ClearForSpin(Cur), Append(timers, Timer("spin", Len(rounds) + 1, 0, 0)))
     IN /\ st' = fin.st
        /\ timers' = fin.timers
        /\ rounds' = Append(rounds, NewRound(st, auto))

AcceptSpin(auto) == AcceptSpinWithin(auto, MaxRounds)

\* keydown "S" (the only player input that reaches spin())
KeySpinWithin(n) ==
  /\ UNCHANGED api
  /\ UNCHANGED wheels
  /\ KeySVerdict(st) # "wheel"
  /\ UNCHANGED session
  /\ CASE KeySVerdict(st) = "accepted" -> AcceptSpinWithin(FALSE, n)
       [] KeySVerdict(st) = "insufficient" ->
            /\ st' = [Cur EXCEPT !.toast = "Insufficient Balance"]
            /\ UNCHANGED <<rounds, timers>>
       [] OTHER -> UNCHANGED <<st, rounds, timers>>

KeySpin == KeySpinWithin(MaxRounds)

\* keydown "T", pressed between rounds
ToggleTurbo ==
  /\ UNCHANGED api
  /\ UNCHANGED wheels
  /\ \A k \in 1 .. Len(rounds) : ~Live(rounds[k])
  /\ LET fin == Render(st, [Cur EXCEPT !.isTurboMode = ~st.isTurboMode], timers)
     IN st' = fin.st /\ timers' = fin.timers
  /\ UNCHANGED <<rounds, session>>

\* a round timer fires: run the next segment of spin()
FireSpinTimer ==
  /\ UNCHANGED api
  /\ UNCHANGED wheels
  /\ HasDue(timers)
  /\ timers[FirstDue(timers)].kind = "spin"
  /\ \E lat \in (IF rounds[timers[FirstDue(timers)].id].pc = "yield" THEN Latencies ELSE {0}) :
     LET k == FirstDue(timers)
         id == timers[k].id
         r == rounds[id]
         res == Resume(Cur, r)
         ts0 == RemoveAt(timers, k)
         ts1 == IF r.pc = "yield"
                THEN Append(Append(ts0, Timer("stagger", id, 0, StartDelay(r.turbo))), Timer("net", id, 0, lat))
                ELSE IF r.pc = "gridDelay" THEN Append(ts0, Timer("bounce", r.i, 0, BounceTime))
                ELSE ts0
         ts2 == IF res.delay >= 0 THEN Append(ts1, Timer("spin", id, 0, res.delay)) ELSE ts1
         r1 == [Moved(r, res) EXCEPT !.lat = lat]
         s1 == IF res.pc = "done" /\ r.auto THEN AutoplayThen(res.st, r, res.outcome, r.resp) ELSE res.st
         fin == Render(st, s1, ts2)
     IN /\ st' = fin.st
        /\ timers' = fin.timers
        /\ rounds' = [rounds EXCEPT ![id] = r1]
  /\ UNCHANGED session

\* startReelsSequentially resumes
FireStagger ==
  /\ UNCHANGED api
  /\ UNCHANGED wheels
  /\ HasDue(timers)
  /\ timers[FirstDue(timers)].kind = "stagger"
  /\ LET k == FirstDue(timers)
         t == timers[k]
         nx == StaggerNext(Cur, t.i)
         ts1 == IF nx.more
                THEN Append(RemoveAt(timers, k), Timer("stagger", t.id, t.i + 1, StartDelay(rounds[t.id].turbo)))
                ELSE RemoveAt(timers, k)
         fin == Render(st, nx.st, ts1)
     IN /\ st' = fin.st
        /\ timers' = fin.timers
  /\ UNCHANGED <<rounds, session>>

\* the 300 ms bounce reset of a reel
FireBounce ==
  /\ UNCHANGED api
  /\ UNCHANGED wheels
  /\ HasDue(timers)
  /\ timers[FirstDue(timers)].kind = "bounce"
  /\ LET k == FirstDue(timers)
         fin == Render(st, [Cur EXCEPT !.bouncingReels[timers[k].id] = FALSE], RemoveAt(timers, k))
     IN st' = fin.st /\ timers' = fin.timers
  /\ UNCHANGED <<rounds, session>>

\* WinAnimation: end of the count-up, then the fade-out, then onAnimationComplete
FireWinAnim ==
  /\ UNCHANGED api
  /\ UNCHANGED wheels
  /\ HasDue(timers)
  /\ timers[FirstDue(timers)].kind = "winAnim"
  /\ timers' = Append(RemoveAt(timers, FirstDue(timers)), Timer("winAnimEnd", 0, 0, WinAnimFadeOut))
  /\ UNCHANGED <<st, rounds, session>>

FireWinAnimEnd ==
  /\ UNCHANGED api
  /\ UNCHANGED wheels
  /\ HasDue(timers)
  /\ timers[FirstDue(timers)].kind = "winAnimEnd"
  /\ LET fin == Render(st, [Cur EXCEPT !.winningFeedback = 0], RemoveAt(timers, FirstDue(timers)))
     IN st' = fin.st /\ timers' = fin.timers
  /\ UNCHANGED <<rounds, session>>

\* the interval of FeatureSymbolSelection reaches totalSpins: it clears itself,
\* shows the selected symbol and starts the pause
FireFeatureCycle ==
  /\ UNCHANGED api
  /\ UNCHANGED wheels
  /\ HasDue(timers)
  /\ timers[FirstDue(timers)].kind = "featureCycle"
  /\ LET s1 == [Cur EXCEPT !.spinningSymbol = Cur.selectedFeatureSymbol]
         ts == Append(RemoveAt(timers, FirstDue(timers)), Timer("featureReveal", 0, 0, FeatureRevealPause))
         fin == Render(st, s1, ts)
     IN st' = fin.st /\ timers' = fin.timers
  /\ UNCHANGED <<rounds, session>>

\* after the pause: the symbol is revealed and the display time starts
FireFeatureReveal ==
  /\ UNCHANGED api
  /\ UNCHANGED wheels
  /\ HasDue(timers)
  /\ timers[FirstDue(timers)].kind = "featureReveal"
  /\ LET s1 == IF Cur.showFeatureSymbolSelection THEN [Cur EXCEPT !.showSymbol = TRUE] ELSE Cur
         ts == Append(RemoveAt(timers, FirstDue(timers)), Timer("featureSelection", 0, 0, FeatureDisplayTime))
         fin == Render(st, s1, ts)
     IN st' = fin.st /\ timers' = fin.timers
  /\ UNCHANGED <<rounds, session>>

\* FeatureSymbolSelection calls onComplete: Home closes the overlay
FireFeatureSelection ==
  /\ UNCHANGED api
  /\ UNCHANGED wheels
  /\ HasDue(timers)
  /\ timers[FirstDue(timers)].kind = "featureSelection"
  /\ LET s1 == [Cur EXCEPT !.showFeatureSymbolSelection = FALSE,
                           !.selectedFeatureSymbol = "",
                           !.freeSpinsCount = 0]
         fin == Render(st, s1, RemoveAt(timers, FirstDue(timers)))
     IN st' = fin.st /\ timers' = fin.timers
  /\ UNCHANGED <<rounds, session>>

\* the autoplay timer fires: spin(), and count the spin when it returns at once
FireAutoplay ==
  /\ UNCHANGED api
  /\ UNCHANGED wheels
  /\ HasDue(timers)
  /\ timers[FirstDue(timers)].kind = "autoplay"
  /\ UNCHANGED session
  /\ IF SpinVerdict(st) = "accepted"
     THEN /\ Len(rounds) < MaxRounds
          /\ LET ts == RemoveAt(timers, FirstDue(timers))
                 fin == Render(st, ClearForSpin(Cur), Append(ts, Timer("spin", Len(rounds) + 1, 0, 0)))
             IN /\ st' = fin.st
                /\ timers' = fin.timers
                /\ rounds' = Append(rounds, NewRound(st, TRUE))
     ELSE /\ LET s1 == IF SpinVerdict(st) = "insufficient"
                       THEN [Cur EXCEPT !.toast = "Insufficient Balance"] ELSE Cur
                 s2 == [s1 EXCEPT !.autoplay.spinsRemaining = s1.autoplay.spinsRemaining - 1]
                 fin == Render(st, s2, RemoveAt(timers, FirstDue(timers)))
             IN st' = fin.st /\ timers' = fin.timers
          /\ UNCHANGED rounds

\* time passes up to the next deadline
MinOf(S) == CHOOSE x \in S : \A y \in S : x <= y

AdvanceTime ==
  /\ UNCHANGED api
  /\ UNCHANGED wheels
  /\ timers # <<>>
  /\ ~HasDue(timers)
  /\ LET d == MinOf({ timers[k].left : k \in 1 .. Len(timers) })
     IN timers' = [k \in 1 .. Len(timers) |-> [timers[k] EXCEPT !.left = timers[k].left - d]]
  /\ UNCHANGED <<st, rounds, session>>

\* the server answers the playGame request of round id
PlayResolvesWith(resp) ==
  LET id == timers[FirstDue(timers)].id
      r == [rounds[id] EXCEPT !.resp = resp]
      res == OnResponse(Cur, r)
      ts0 == RemoveAt(timers, FirstDue(timers))
      ts1 == IF res.delay >= 0 THEN Append(ts0, Timer("spin", id, 0, res.delay)) ELSE ts0
      s1 == IF res.pc = "done" /\ r.auto THEN AutoplayThen(res.st, r, res.outcome, r.resp) ELSE res.st
      fin == Render(st, s1, ts1)
  IN /\ st' = fin.st
     /\ timers' = fin.timers
     /\ rounds' = [rounds EXCEPT ![id] = Moved(r, res)]

PlayResolves ==
  /\ UNCHANGED api
  /\ UNCHANGED wheels
  /\ HasDue(timers)
  /\ timers[FirstDue(timers)].kind = "net"
  /\ \E resp \in PlayResponses : PlayResolvesWith(resp)
  /\ UNCHANGED session

\* the playGame request of a round fails
PlayRejects ==
  /\ UNCHANGED api
  /\ UNCHANGED wheels
  /\ HasDue(timers)
  /\ timers[FirstDue(timers)].kind = "net"
  /\ LET id == timers[FirstDue(timers)].id
         r == rounds[id]
         res == OnReject(Cur, r)
         s1 == IF r.auto THEN AutoplayThen(res.st, r, res.outcome, r.resp) ELSE res.st
         fin == Render(st, s1, RemoveAt(timers, FirstDue(timers)))
     IN /\ st' = fin.st
        /\ timers' = fin.timers
        /\ rounds' = [rounds EXCEPT ![id] = Moved(r, res)]
  /\ UNCHANGED session

\* initializeGame: the session snapshot arrives
SessionResolvesWith(sr) ==
  LET s1 == [Cur EXCEPT !.balance = IF sr.balance > 0 THEN sr.balance ELSE DefaultBalance,
                       !.freeSpinsRemaining = sr.freeSpins,
                       !.featureSymbol = sr.featureSymbol]
      s2 == HandleActionWheelStateChange(s1, sr.actionGameSpins > 0, sr.actionGameSpins,
                                         BackendAccumulatedWin(sr))
      fin == Render(st, s2, RemoveAt(timers, FirstDue(timers)))
  IN st' = fin.st /\ timers' = fin.timers

SessionResolves ==
  /\ UNCHANGED api
  /\ UNCHANGED wheels
  /\ HasDue(timers)
  /\ timers[FirstDue(timers)].kind = "session"
  /\ \E sr \in SessionResponses : SessionResolvesWith(sr)
  /\ session' = "done"
  /\ UNCHANGED rounds

\* initializeGame: getSession failed
SessionRejects ==
  /\ UNCHANGED api
  /\ UNCHANGED wheels
  /\ HasDue(timers)
  /\ timers[FirstDue(timers)].kind = "session"
  /\ LET fin == Render(st, [Cur EXCEPT !.balance = DefaultBalance], RemoveAt(timers, FirstDue(timers)))
     IN st' = fin.st /\ timers' = fin.timers
  /\ session' = "failed"
  /\ UNCHANGED rounds

\* the autoplay dialog's start button, pressed between rounds
StartAutoplay ==
  /\ UNCHANGED api
  /\ UNCHANGED wheels
  /\ ~st.autoplay.isActive
  /\ \A k \in 1 .. Len(rounds) : ~Live(rounds[k])
  /\ \E settings \in AutoplaySettings :
       LET fin == Render(st, StartAutoplayState(Cur, settings), timers)
       IN st' = fin.st /\ timers' = fin.timers
  /\ UNCHANGED <<rounds, session>>

\* keydown "A" while autoplay is active, or the stop button
StopAutoplay ==
  /\ UNCHANGED api
  /\ UNCHANGED wheels
  /\ st.autoplay.isActive
  /\ LET fin == Render(st, StopAutoplayState(Cur), timers)
     IN st' = fin.st /\ timers' = fin.timers
  /\ UNCHANGED <<rounds, session>>

\* timers, time and the server
Timed ==
  \/ FireSpinTimer
  \/ FireStagger
  \/ FireBounce
  \/ FireWinAnim
  \/ FireWinAnimEnd
  \/ FireFeatureCycle
  \/ FireFeatureReveal
  \/ FireFeatureSelection
  \/ AdvanceTime
  \/ PlayResolves
  \/ PlayRejects
  \/ SessionResolves
  \/ SessionRejects

\* keyboard play
Next ==
  \/ KeySpin
  \/ ToggleTurbo
  \/ Timed

Spec == Init /\ [][Next]_vars

\* autoplay
NextAutoplay ==
  \/ StartAutoplay
  \/ StopAutoplay
  \/ FireAutoplay
  \/ ToggleTurbo
  \/ Timed

SpecAutoplay == Init /\ [][NextAutoplay]_vars

\* ------------------------------------------------------------ bonus wheel
\* WHEEL_SEGMENTS, clockwise from 12 o'clock; segment i is WheelSegments[i + 1]
WheelSegments == <<"6", "R10", "", "R10", "R10", "R10", "", "R10", "R10", "R10", "", "R10">>

SegmentCount == Len(WheelSegments)

TotalCycles == 2
StepDelay == 50
GreenHold == 300
BalanceDelay == 200
MessageTime == 2000
FinishedTime == 2000
ClearTime == 3000

TotalSteps == TotalCycles * SegmentCount

SegmentsLabelled(label) == { i \in 0 .. (SegmentCount - 1) : WheelSegments[i + 1] = label }

\* a selection that takes any prize segment for any winning result
SelectableSegmentsAnyPrize(result) ==
  IF result = "0" THEN SegmentsLabelled("") ELSE {0} \cup SegmentsLabelled("R10")

\* the segments handleSpin draws from, with Math.random, for a result
SelectableSegments(result) ==
  IF result = "R10" THEN SegmentsLabelled("R10")
  ELSE IF result = "6spins" THEN {0}
  ELSE SegmentsLabelled("")

FinalSteps(sel) == sel + SegmentCount

\* stepDelay * (1 + j / finalSteps * 3), as setTimeout takes it: whole milliseconds
FinalDelay(j, sel) == StepDelay + (StepDelay * 3 * j) \div FinalSteps(sel)

WheelResults == {"R10", "6spins", "0"}

\* ActionGameSpinResponse of a server that continues from what it last sent
WheelResponse(s, result) ==
  LET win == IF result = "R10" THEN WheelWin ELSE 0
      additional == IF result = "6spins" THEN ExtraSpins ELSE 0
      left == IF s.actionGameSpins > 0 THEN s.actionGameSpins - 1 ELSE 0
      held == IF s.pendingBalance # NoBalance THEN s.pendingBalance ELSE s.balance
  IN [kind |-> "wheel", result |-> result, win |-> win, additionalSpins |-> additional,
      remainingSpins |-> left + additional,
      accumulatedWin |-> s.accumulatedActionWin + win,
      balance |-> held + win]

\* a started handleSpin(): position, loop index and what its closure holds
NewWheelSpin(s) ==
  [pc |-> "cycle", i |-> 0, total |-> s.actionGameSpins, inst |-> s.wheelInstance,
   resp |-> NoResponse, result |-> "", sel |-> NoSegment, shown |-> FALSE, notified |-> FALSE]

\* a finished handleSpin() keeps only what it selected, whether the selected
\* segment was set green on a mounted wheel, and whether onWin was called
WheelDone(w) ==
  [pc |-> "done", i |-> 0, total |-> 0, inst |-> 0,
   resp |-> NoResponse, result |-> w.result, sel |-> w.sel,
   shown |-> w.shown, notified |-> w.pc = "hold"]

\* setState of an ActionWheel instance takes effect only while it is mounted
WheelAlive(s, w) == WheelMounted(s) /\ s.wheelInstance = w.inst

SetCurrentSegment(s, w, seg) == IF WheelAlive(s, w) THEN [s EXCEPT !.currentSegment = seg] ELSE s

SetWheelSpinning(s, w, b) == IF WheelAlive(s, w) THEN [s EXCEPT !.wheelSpinning = b] ELSE s

\* Home.handleActionWheelSpin after spinActionGame resolved
HandleActionWheelSpin(s, resp) ==
  [s EXCEPT !.actionGameSpins = resp.remainingSpins,
            !.accumulatedActionWin = resp.accumulatedWin,
            !.showActionWheel = IF resp.remainingSpins > 0 THEN TRUE ELSE s.showActionWheel,
            !.pendingBalance = resp.balance]

\* Home.handleActionWheelWin: the message and the amount shown
HandleActionWheelWin(s, result) ==
  [s EXCEPT !.actionGameWinMessage = IF result = "R10" THEN "Action Game Win!"
                                     ELSE IF result = "6spins" THEN "6 Additional Spins!"
                                     ELSE "No Win This Spin",
            !.actionGameWinAmount = IF result = "R10" THEN 10 ELSE 0]

\* Home.handleActionWheelComplete
HandleActionWheelComplete(s) ==
  [s EXCEPT !.showActionWheel = FALSE, !.actionGameSpins = 0]

\* play responses of a server that continues from the bonus state it last
\* sent: a round may win a bonus spin, alone or together with free spins, and
\* the optional accumulated win may be left out
BonusPlayResponses(s) ==
  { [Resp(7, 0, FALSE, "", 0, FALSE, FALSE, act, GridA)
       EXCEPT !.actionGameSpins = IF act THEN s.actionGameSpins + 1 ELSE s.actionGameSpins,
              !.accumulatedActionGameWin = IF out THEN Absent ELSE s.accumulatedActionWin]
      : act \in BOOLEAN, out \in BOOLEAN }
  \cup
  { [Resp(7, MaxFreeSpins, FALSE, "Queen", 0, FALSE, TRUE, TRUE, GridB)
       EXCEPT !.actionGameSpins = s.actionGameSpins + 1,
              !.accumulatedActionGameWin = s.accumulatedActionWin] }

\* session snapshots with free spins or bonus state outstanding
BonusSessionResponses ==
  { [balance |-> 7, freeSpins |-> 0, featureSymbol |-> "", actionGameSpins |-> 0, accumulatedActionGameWin |-> 0],
    [balance |-> 7, freeSpins |-> MaxFreeSpins, featureSymbol |-> "Queen", actionGameSpins |-> 0, accumulatedActionGameWin |-> 0],
    [balance |-> 7, freeSpins |-> MaxFreeSpins, featureSymbol |-> "Queen", actionGameSpins |-> 0, accumulatedActionGameWin |-> WheelWin],
    [balance |-> 7, freeSpins |-> 0, featureSymbol |-> "", actionGameSpins |-> 2, accumulatedActionGameWin |-> WheelWin],
    [balance |-> 7, freeSpins |-> MaxFreeSpins, featureSymbol |-> "Queen", actionGameSpins |-> 1, accumulatedActionGameWin |-> 0] }

PlayResolvesBonus ==
  /\ UNCHANGED api
  /\ UNCHANGED wheels
  /\ HasDue(timers)
  /\ timers[FirstDue(timers)].kind = "net"
  /\ \E resp \in BonusPlayResponses(st) : PlayResolvesWith(resp)
  /\ UNCHANGED session

SessionResolvesBonus ==
  /\ UNCHANGED api
  /\ UNCHANGED wheels
  /\ HasDue(timers)
  /\ timers[FirstDue(timers)].kind = "session"
  /\ \E sr \in BonusSessionResponses : SessionResolvesWith(sr)
  /\ session' = "done"
  /\ UNCHANGED rounds

\* keydown "S" while the wheel is shown with spins left: the trigger the
\* mounted ActionWheel registered, then handleSpin up to its first await
KeyWheel ==
  /\ UNCHANGED api
  /\ KeySVerdict(st) = "wheel"
  /\ WheelMounted(st)
  /\ ~st.wheelSpinning
  /\ Len(wheels) < MaxWheelSpins
  /\ Len(rounds) < MaxRounds
  /\ LET s1 == [Cur EXCEPT !.wheelSpinning = TRUE,
                           !.spinResult = "",
                           !.selectedSegment = NoSegment,
                           !.currentSegment = 0]
         fin == Render(st, s1, Append(timers, Timer("wheel", Len(wheels) + 1, 0, StepDelay)))
     IN st' = fin.st /\ timers' = fin.timers
  /\ wheels' = Append(wheels, NewWheelSpin(st))
  /\ UNCHANGED <<rounds, session>>

\* handleSpin resumes from a timer: the decorative cycle, the request, the
\* slowing approach to the selected segment, the hold and the notification
FireWheelStep ==
  /\ UNCHANGED api
  /\ HasDue(timers)
  /\ timers[FirstDue(timers)].kind = "wheel"
  /\ \E lat \in (IF /\ wheels[timers[FirstDue(timers)].id].pc = "cycle"
                    /\ wheels[timers[FirstDue(timers)].id].i + 1 >= TotalSteps
                 THEN Latencies ELSE {0}) :
     LET k == FirstDue(timers)
         id == timers[k].id
         w == wheels[id]
         ts0 == RemoveAt(timers, k)
         n == FinalSteps(w.sel)
         res ==
           IF w.pc = "cycle"
           THEN IF w.i + 1 < TotalSteps
                THEN [st |-> SetCurrentSegment(Cur, w, (w.i + 1) % SegmentCount),
                      w |-> [w EXCEPT !.i = w.i + 1],
                      ts |-> Append(ts0, Timer("wheel", id, 0, StepDelay))]
                ELSE IF ~Cur.sessionId
                THEN [st |-> SetWheelSpinning(Cur, w, FALSE), w |-> WheelDone(w), ts |-> ts0]
                ELSE [st |-> Cur, w |-> [w EXCEPT !.pc = "awaitSpin"],
                      ts |-> Append(ts0, Timer("wheelNet", id, 0, lat))]
           ELSE IF w.pc = "final"
           THEN IF w.i = n - 1
                THEN [st |-> IF WheelAlive(Cur, w)
                             THEN [Cur EXCEPT !.currentSegment = NoSegment,
                                              !.selectedSegment = w.sel,
                                              !.spinResult = w.resp.result]
                             ELSE Cur,
                      w |-> [w EXCEPT !.pc = "hold", !.shown = WheelAlive(Cur, w)],
                      ts |-> Append(ts0, Timer("wheel", id, 0, GreenHold))]
                ELSE [st |-> SetCurrentSegment(Cur, w, (TotalSteps + w.i + 1) % SegmentCount),
                      w |-> [w EXCEPT !.i = w.i + 1],
                      ts |-> Append(ts0, Timer("wheel", id, 0, FinalDelay(w.i + 1, w.sel)))]
           ELSE [st |-> SetWheelSpinning(HandleActionWheelWin(Cur, w.resp.result), w, FALSE),
                 w |-> WheelDone(w),
                 ts |-> Append(Append(ts0, Timer("wheelBalance", 0, 0, BalanceDelay)),
                               Timer("wheelMessage", w.total - 1 + w.resp.additionalSpins, 0, MessageTime))]
         fin == Render(st, res.st, res.ts)
     IN /\ st' = fin.st
        /\ timers' = fin.timers
        /\ wheels' = [wheels EXCEPT ![id] = res.w]
  /\ UNCHANGED <<rounds, session>>

\* spinActionGame resolves: Home stores the response and holds the balance
\* back, handleSpin picks the segment and starts the approach
WheelResolves ==
  /\ UNCHANGED api
  /\ HasDue(timers)
  /\ timers[FirstDue(timers)].kind = "wheelNet"
  /\ \E result \in WheelResults : \E sel \in SelectableSegments(result) :
       LET k == FirstDue(timers)
           id == timers[k].id
           resp == WheelResponse(Cur, result)
           w == [wheels[id] EXCEPT !.pc = "final", !.i = 0, !.resp = resp,
                                   !.result = result, !.sel = sel]
           s1 == SetCurrentSegment(HandleActionWheelSpin(Cur, resp), w, TotalSteps % SegmentCount)
           fin == Render(st, s1, Append(RemoveAt(timers, k), Timer("wheel", id, 0, FinalDelay(0, sel))))
       IN /\ st' = fin.st
          /\ timers' = fin.timers
          /\ wheels' = [wheels EXCEPT ![id] = w]
  /\ UNCHANGED <<rounds, session>>

\* spinActionGame rejects: the catch of handleSpin
WheelRejects ==
  /\ UNCHANGED api
  /\ HasDue(timers)
  /\ timers[FirstDue(timers)].kind = "wheelNet"
  /\ LET k == FirstDue(timers)
         id == timers[k].id
         fin == Render(st, SetWheelSpinning(Cur, wheels[id], FALSE), RemoveAt(timers, k))
     IN /\ st' = fin.st
        /\ timers' = fin.timers
        /\ wheels' = [wheels EXCEPT ![id] = WheelDone(wheels[id])]
  /\ UNCHANGED <<rounds, session>>

\* 200 ms after the win message: the held balance reaches SlotMachine
FireWheelBalance ==
  /\ UNCHANGED api
  /\ HasDue(timers)
  /\ timers[FirstDue(timers)].kind = "wheelBalance"
  /\ LET s1 == IF Cur.pendingBalance # NoBalance
               THEN [Cur EXCEPT !.balance = Cur.pendingBalance, !.pendingBalance = NoBalance]
               ELSE Cur
         fin == Render(st, s1, RemoveAt(timers, FirstDue(timers)))
     IN st' = fin.st /\ timers' = fin.timers
  /\ UNCHANGED <<rounds, session, wheels>>

\* 2000 ms after the win message: the finished notice after the final spin,
\* otherwise the message is left for another 3000 ms
FireWheelMessage ==
  /\ UNCHANGED api
  /\ HasDue(timers)
  /\ timers[FirstDue(timers)].kind = "wheelMessage"
  /\ LET k == FirstDue(timers)
         final == timers[k].id = 0
         s1 == IF final
               THEN [Cur EXCEPT !.actionGameWinMessage = "", !.actionGameWinAmount = 0,
                                !.actionGamesFinished = TRUE]
               ELSE Cur
         ts1 == Append(RemoveAt(timers, k),
                       IF final THEN Timer("wheelClose", 0, 0, FinishedTime)
                       ELSE Timer("wheelClear", 0, 0, ClearTime))
         fin == Render(st, s1, ts1)
     IN st' = fin.st /\ timers' = fin.timers
  /\ UNCHANGED <<rounds, session, wheels>>

\* the wheel closes after the finished notice
FireWheelClose ==
  /\ UNCHANGED api
  /\ HasDue(timers)
  /\ timers[FirstDue(timers)].kind = "wheelClose"
  /\ LET s1 == [HandleActionWheelComplete(Cur) EXCEPT !.actionGamesFinished = FALSE]
         fin == Render(st, s1, RemoveAt(timers, FirstDue(timers)))
     IN st' = fin.st /\ timers' = fin.timers
  /\ UNCHANGED <<rounds, session, wheels>>

\* the win message of a spin that was not the last is cleared
FireWheelClear ==
  /\ UNCHANGED api
  /\ HasDue(timers)
  /\ timers[FirstDue(timers)].kind = "wheelClear"
  /\ LET s1 == [Cur EXCEPT !.actionGameWinMessage = "", !.actionGameWinAmount = 0]
         fin == Render(st, s1, RemoveAt(timers, FirstDue(timers)))
     IN st' = fin.st /\ timers' = fin.timers
  /\ UNCHANGED <<rounds, session, wheels>>

\* reel play with bonus state, and the wheel
NextWheel ==
  \/ KeySpin
  \/ KeyWheel
  \/ FireSpinTimer
  \/ FireStagger
  \/ FireBounce
  \/ AdvanceTime
  \/ PlayResolvesBonus
  \/ SessionResolvesBonus
  \/ FireWheelStep
  \/ WheelResolves
  \/ WheelRejects
  \/ FireWheelBalance
  \/ FireWheelMessage
  \/ FireWheelClose
  \/ FireWheelClear

SpecWheel == Init /\ [][NextWheel]_vars

\* ------------------------------------------------------- winning borders
ScatterSymbol == "Scatter"

\* the index getWinningLineIndices reports for a scatter win
ScatterIndex == 10

Contains(seq, x) == \E k \in 1 .. Len(seq) : seq[k] = x

IsShowingFeatureGameWins(s) ==
  /\ IsFreeSpinsMode(s)
  /\ s.showFeatureGameWins
  /\ Len(s.reelsToExpand) >= ExpansionThreshold(s.featureSymbol)

\* the lines of the feature symbol among the lines on display
FeatureBorderLines(s) ==
  LET ForFeature(line) == /\ line.paylineIndex # -1
                          /\ line.symbol = s.featureSymbol
                          /\ line.paylineIndex < NumPaylines
  IN SelectSeq(s.winningLines, ForFeature)

PaylineIndices(lines) == [k \in 1 .. Len(lines) |-> lines[k].paylineIndex]

\* a reduce step that leaves the winning count out
LineBorderBeyondCount(s, line, reelIndex, rowIndex) ==
  IF /\ line.paylineIndex # -1
     /\ line.paylineIndex < NumPaylines
     /\ reelIndex \in DOMAIN line.line
     /\ line.line[reelIndex] = rowIndex
  THEN <<line.paylineIndex>>
  ELSE <<>>

\* one step of the reduce over winningLines
LineBorder(s, line, reelIndex, rowIndex) ==
  LET gridSymbol == s.grid[reelIndex][rowIndex]
  IN IF IsFreeSpinsMode(s) /\ IsShowingFeatureGameWins(s) THEN <<>>
     ELSE IF line.paylineIndex # -1
     THEN IF /\ line.paylineIndex < NumPaylines
             /\ reelIndex \in DOMAIN line.line
             /\ line.line[reelIndex] = rowIndex
             /\ reelIndex < line.count
             /\ (gridSymbol = line.symbol \/ gridSymbol = ScatterSymbol)
          THEN <<line.paylineIndex>>
          ELSE <<>>
     ELSE IF /\ line.count >= 3
             /\ gridSymbol = line.symbol
             /\ (~IsFreeSpinsMode(s) \/ (s.featureSymbol # "Scatter" /\ ~IsShowingFeatureGameWins(s)))
          THEN <<ScatterIndex>>
          ELSE <<>>

RECURSIVE ReduceBorders(_, _, _, _)
ReduceBorders(s, lines, reelIndex, rowIndex) ==
  IF lines = <<>> THEN <<>>
  ELSE LineBorder(s, Head(lines), reelIndex, rowIndex) \o ReduceBorders(s, Tail(lines), reelIndex, rowIndex)

\* the payline indices whose border the cell (reelIndex, rowIndex) shows
GetWinningLineIndices(s, reelIndex, rowIndex) ==
  IF Len(s.winningLines) = 0 THEN <<>>
  ELSE IF /\ IsFreeSpinsMode(s)
          /\ Contains(s.reelsToExpand, reelIndex)
          /\ s.featureSymbol # ""
          /\ Len(FeatureBorderLines(s)) > 0
  THEN PaylineIndices(FeatureBorderLines(s))
  ELSE ReduceBorders(s, s.winningLines, reelIndex, rowIndex)

\* play responses with wins on display: a base-game win, a free-spin trigger
\* with a base-game win, free spins that expand with and without feature wins,
\* one or two scatters that trigger nothing, and a trigger that selects the
\* scatter as feature symbol; in free spins winningLines holds no win of the
\* feature symbol ("backend already excludes feature symbol wins")
BorderPlayResponses ==
  { Resp(7, 0, TRUE, "", 0, FALSE, FALSE, FALSE, GridA),
    Resp(7, MaxFreeSpins, TRUE, "Queen", 0, FALSE, TRUE, FALSE, GridA),
    Resp(7, 0, TRUE, "Queen", 2, TRUE, FALSE, FALSE, GridA),
    Resp(7, 0, TRUE, "Queen", 2, FALSE, FALSE, FALSE, GridA),
    [Resp(7, 0, TRUE, "Queen", 0, FALSE, FALSE, FALSE, GridA)
       EXCEPT !.scatterWin = [count |-> 2, triggeredFreeSpins |-> FALSE]],
    [Resp(7, 0, FALSE, "Queen", 0, FALSE, FALSE, FALSE, GridA)
       EXCEPT !.scatterWin = [count |-> 1, triggeredFreeSpins |-> FALSE]],
    Resp(7, MaxFreeSpins, FALSE, "Scatter", 0, FALSE, TRUE, FALSE, GridB) }

PlayResolvesBorders ==
  /\ UNCHANGED api
  /\ UNCHANGED wheels
  /\ HasDue(timers)
  /\ timers[FirstDue(timers)].kind = "net"
  /\ \E resp \in BorderPlayResponses : PlayResolvesWith(resp)
  /\ UNCHANGED session

\* keyboard play with wins on display
NextBorders ==
  \/ KeySpin
  \/ FireSpinTimer
  \/ FireStagger
  \/ FireBounce
  \/ FireWinAnim
  \/ FireWinAnimEnd
  \/ FireFeatureCycle
  \/ FireFeatureReveal
  \/ FireFeatureSelection
  \/ AdvanceTime
  \/ PlayResolvesBorders
  \/ SessionResolves

SpecBorders == Init /\ [][NextBorders]_vars

\* ------------------------------------------------- repeated key presses
\* play responses of a plain round and of a free spin that expands reels
RepeatPlayResponses ==
  { Resp(7, 0, FALSE, "", 0, FALSE, FALSE, FALSE, GridA),
    Resp(7, 0, FALSE, "Queen", 2, FALSE, FALSE, FALSE, GridB) }

PlayResolvesRepeat ==
  /\ UNCHANGED api
  /\ UNCHANGED wheels
  /\ HasDue(timers)
  /\ timers[FirstDue(timers)].kind = "net"
  /\ \E resp \in RepeatPlayResponses : PlayResolvesWith(resp)
  /\ UNCHANGED session

KeySpinRepeat == KeySpinWithin(MaxPresses)

\* keyboard play with up to MaxPresses accepted key presses
NextRepeat ==
  \/ KeySpinRepeat
  \/ FireSpinTimer
  \/ FireStagger
  \/ FireBounce
  \/ AdvanceTime
  \/ PlayResolvesRepeat
  \/ PlayRejects
  \/ SessionResolves

SpecRepeat == Init /\ [][NextRepeat]_vars

\* ------------------------------------------------------ configuration
\* the non-optional fields of FrontendGameConfig
RequiredFields ==
  {"gameName", "numReels", "numRows", "betAmounts", "freeSpinsAwarded", "symbols", "paylines"}

\* the fields loadConfig tests before it accepts the document
ValidatedFields == {"numReels", "numRows", "symbols", "paylines"}

\* config before the document is accepted
NoConfig == [loaded |-> FALSE, fields |-> {}]

\* documents by the required fields they carry: complete, or one field missing
ConfigDocuments == {RequiredFields} \cup { RequiredFields \ {f} : f \in RequiredFields }

\* GameConfigProvider mounted, the fetch of the document in flight
InitConfig ==
  /\ st = [InitSt EXCEPT !.config = NoConfig, !.configLoading = TRUE, !.sessionId = FALSE]
  /\ rounds = <<>>
  /\ timers = <<Timer("config", 0, 0, ConfigLatency)>>
  /\ session = "none"
  /\ wheels = <<>>
  /\ api = <<>>

\* the document arrives: validation, setConfig, and the initializeGame effect
\* of SlotMachine that runs once config is set
ConfigResolves ==
  /\ UNCHANGED api
  /\ HasDue(timers)
  /\ timers[FirstDue(timers)].kind = "config"
  /\ \E doc \in ConfigDocuments :
       LET ts0 == RemoveAt(timers, FirstDue(timers))
       IN IF ValidatedFields \subseteq doc
          THEN LET s1 == [Cur EXCEPT !.config = [loaded |-> TRUE, fields |-> doc],
                                    !.configLoading = FALSE,
                                    !.sessionId = TRUE]
                   fin == Render(st, s1, Append(ts0, Timer("session", 0, 0, SessionLatency)))
               IN st' = fin.st /\ timers' = fin.timers /\ session' = "pending"
          ELSE /\ st' = [Cur EXCEPT !.configLoading = FALSE,
                                    !.configError = "Invalid game configuration: missing required fields"]
               /\ timers' = ts0
               /\ UNCHANGED session
  /\ UNCHANGED <<rounds, wheels>>

\* the fetch fails or answers with an error status
ConfigRejects ==
  /\ UNCHANGED api
  /\ HasDue(timers)
  /\ timers[FirstDue(timers)].kind = "config"
  /\ st' = [Cur EXCEPT !.configLoading = FALSE, !.configError = "Failed to load game config"]
  /\ timers' = RemoveAt(timers, FirstDue(timers))
  /\ UNCHANGED <<rounds, session, wheels>>

\* start-up and keyboard play
NextConfig ==
  \/ ConfigResolves
  \/ ConfigRejects
  \/ KeySpin
  \/ Timed

SpecConfig == InitConfig /\ [][NextConfig]_vars

\* ------------------------------------------------------------------ claims
AllDone == \A k \in 1 .. Len(rounds) : ~Live(rounds[k])

\* the state a round writes as it reveals and applies its result
RoundFields(s) ==
  <<s.grid, s.winningLines, s.expandingReels, s.balance, s.freeSpinsRemaining, s.featureSymbol, s.lastWin>>

\* C1: once a newer spin() has been accepted, a step of an earlier round
\* changes none of grid, winningLines, expandingReels, balance,
\* freeSpinsRemaining, featureSymbol and lastWin
C1_SupersededRoundMutatesNothing ==
  [][\A id \in 1 .. Len(rounds) :
       (Len(rounds') = Len(rounds) /\ id < Len(rounds) /\ rounds'[id] # rounds[id])
         => RoundFields(st') = RoundFields(st)]_vars

\* C2: at most one playGame request is in flight at any time
C2_OneRequestInFlight ==
  Cardinality({ k \in 1 .. Len(timers) : timers[k].kind = "net" }) <= 1

\* C3: after the failure handler of the latest round has run, and until a
\* further spin is accepted, no reel is marked spinning
C3_FailedRoundLeavesNoReelSpinning ==
  (rounds # <<>> /\ AllDone /\ rounds[Len(rounds)].outcome = "failed") => ~IsSpinning(st)

\* the is-busy components
Busy(s) ==
  \/ \E i \in Reels : s.spinningReels[i]
  \/ s.winningFeedback # 0
  \/ \E i \in Reels : s.expandingReels[i] \/ s.bouncingReels[i]
  \/ s.showFeatureSymbolSelection
  \/ s.showActionWheel
  \/ s.showFeatureGameWins

\* C4: in free-spin mode, while any is-busy component is set, spin() rejects,
\* the "S" key reaches no accepted spin, and no round is created
C4_BusyFreeSpinRejects ==
  [][(IsFreeSpinsMode(st) /\ Busy(st))
       => /\ SpinVerdict(st) = "busy"
          /\ KeySVerdict(st) \in {"ignored", "wheel"}
          /\ Len(rounds') = Len(rounds)]_vars

C4_Witness ==
  /\ IsFreeSpinsMode(st)
  /\ st.showFeatureSymbolSelection
  /\ ~IsSpinning(st)
  /\ rounds # <<>>
  /\ AllDone

\* C5: outside free-spin mode, with no reel spinning and no overlay, a spin
\* request made while the win feedback shows is accepted
C5_WinFeedbackDoesNotBlock ==
  (/\ ~IsFreeSpinsMode(st)
   /\ ~IsSpinning(st)
   /\ st.winningFeedback # 0
   /\ ~st.showFeatureSymbolSelection
   /\ ~st.showActionWheel
   /\ st.balance >= TotalBet)
    => KeySVerdict(st) = "accepted"

\* C6: a spin request made with balance below the bet and no free or bonus
\* spins reaches the insufficient-balance notification
C6_InsufficientBalanceNotified ==
  (/\ st.balance < TotalBet
   /\ st.freeSpinsRemaining = 0
   /\ st.actionGameSpins = 0
   /\ ~Busy(st))
    => KeySVerdict(st) = "insufficient"

\* the values the server owns
Stored(s) == <<s.balance, s.freeSpinsRemaining, s.featureSymbol, s.lastWin>>

\* the responses of the rounds that apply their result in this step
AppliedResponses ==
  { rounds[k].resp : k \in { j \in 1 .. Len(rounds) :
                               /\ Len(rounds') = Len(rounds)
                               /\ Live(rounds[j])
                               /\ rounds'[j].outcome = "applied" } }

\* C7: balance, freeSpinsRemaining, featureSymbol and lastWin change only
\* by taking the values of a server response, unaltered
C7_StoredValuesComeFromServer ==
  [][IF session' # session
     THEN \E sr \in SessionResponses :
            /\ st'.balance = sr.balance
            /\ st'.freeSpinsRemaining = sr.freeSpins
            /\ st'.featureSymbol = sr.featureSymbol
            /\ st'.lastWin = st.lastWin
     ELSE IF AppliedResponses # {}
     THEN \A r \in AppliedResponses :
            Stored(st') = <<r.balance, r.freeSpinsRemaining, r.playerFeatureSymbol, r.lastWin>>
     ELSE Stored(st') = Stored(st)]_vars

\* C8: a spin is accepted from the autoplay timer only when every earlier
\* round has finished applying or aborting
C8_AutoplayWaitsForRound ==
  [][Len(rounds') > Len(rounds) => AllDone]_vars

\* the positions of a round between its decision to expand and the end of
\* the feature dwell
ExpansionPositions == {"showGrid", "preExpand", "expandA", "expandB", "postExpand", "dwell"}

Expanding(r) == r.pc \in ExpansionPositions /\ r.fs /\ WillExpand(r.resp)

\* C9: while a free-spin round is between its decision to expand and the end
\* of its feature dwell, an is-busy component is set
C9_BusyThroughExpansion ==
  \A k \in 1 .. Len(rounds) : Expanding(rounds[k]) => Busy(st)

\* the reels a round expands
ExpandedReels(r) == { i \in Reels : ExpandingFlags(r.resp)[i] }

\* C10: when an expanding free-spin round has settled, every row of each
\* expanded reel shows the response's feature symbol and the displayed
\* winning lines are the response's featureGameWinningLines
C10_SettledShowsFeatureResult ==
  [][\A k \in 1 .. Len(rounds) :
       (/\ Len(rounds') = Len(rounds)
        /\ Expanding(rounds[k])
        /\ rounds'[k].outcome = "applied")
         => /\ \A i \in ExpandedReels(rounds[k]) : st'.grid[i] = Column(rounds[k].resp.featureSymbol)
            /\ st'.winningLines = rounds[k].resp.featureGameWinningLines]_vars

\* the autoplay rounds that have not yet returned to the autoplay timer's
\* .then(), where each takes one spin off spinsRemaining
PendingAutoRounds == { k \in 1 .. Len(rounds) : Live(rounds[k]) /\ rounds[k].auto }

\* C11: a run of N spins issues at most N requests: a spin is accepted from
\* the autoplay timer only while spinsRemaining exceeds the number of rounds
\* still to be counted, and autoplay is never active with spinsRemaining at 0
C11_AutoplayIssuesAtMostN ==
  [][/\ Len(rounds') > Len(rounds)
          => st.autoplay.spinsRemaining > Cardinality(PendingAutoRounds)
     /\ st'.autoplay.isActive => st'.autoplay.spinsRemaining > 0]_vars

\* a round's result against the settings of the run, the loss measured with
\* the balance the response brings
StopConditionMet(ap, resp) ==
  /\ ap.isActive
  /\ ap.settings # NoSettings
  /\ \/ ap.settings.stopOnAnyWin /\ resp.totalWin > 0
     \/ resp.totalWin > ap.settings.stopOnSingleWinExceeds
     \/ ap.settings.stopOnFeature /\ resp.scatterWin.triggeredFreeSpins
     \/ ap.originalBalance - resp.balance > ap.settings.stopOnTotalLossExceeds

\* C12: when an autoplay round returns a result that meets a configured stop
\* condition, autoplay is inactive once the round has returned
C12_StopConditionStopsAutoplay ==
  [][\A k \in 1 .. Len(rounds) :
       (/\ Len(rounds') = Len(rounds)
        /\ Live(rounds[k])
        /\ rounds[k].auto
        /\ rounds'[k].outcome = "applied"
        /\ StopConditionMet(st.autoplay, rounds[k].resp))
         => ~st'.autoplay.isActive]_vars

\* the autoplay rounds that return to the autoplay timer's .then() in this step
ReturningAutoRounds ==
  { k \in 1 .. Len(rounds) :
      Len(rounds') = Len(rounds) /\ Live(rounds[k]) /\ rounds[k].auto /\ ~Live(rounds'[k]) }

\* the spin counted in this step was the last of the run
LastSpinCounted ==
  /\ st.autoplay.spinsRemaining <= 1
  /\ \/ ReturningAutoRounds # {}
     \/ HasDue(timers) /\ timers[FirstDue(timers)].kind = "autoplay"

\* the balance no longer covers the bet, outside free spins and bonus spins
BalanceInsufficient(s) ==
  s.balance < TotalBet /\ s.freeSpinsRemaining = 0 /\ s.actionGameSpins = 0

\* a round returning in this step brought a result that meets a stop
\* condition, or the loss limit was already passed by an earlier result
StopConditionReached ==
  \E k \in ReturningAutoRounds :
    /\ rounds'[k].outcome = "applied"
    /\ \/ StopConditionMet(st.autoplay, rounds[k].resp)
       \/ st.autoplay.originalBalance - st.balance > st.autoplay.settings.stopOnTotalLossExceeds

C14_AccumulatedWinNeverDecreases ==
  [][st'.accumulatedActionWin >= st.accumulatedActionWin]_vars

\* the rounds that apply their result in this step
ApplyingRounds ==
  { k \in 1 .. Len(rounds) :
      Len(rounds') = Len(rounds) /\ Live(rounds[k]) /\ rounds'[k].outcome = "applied" }

\* C15: a round that takes freeSpinsRemaining from a positive value to 0
\* opens the bonus wheel when its response reports bonus spins or an
\* accumulated bonus win, and does not open it when it reports neither
C15_WheelOpensWhenFreeSpinsEnd ==
  [][\A k \in ApplyingRounds :
       (st.freeSpinsRemaining > 0 /\ st'.freeSpinsRemaining = 0)
         => IF rounds[k].resp.actionGameSpins > 0 \/ BackendAccumulatedWin(rounds[k].resp) > 0
            THEN st'.showActionWheel
            ELSE st'.showActionWheel = st.showActionWheel]_vars

\* C16: a response with triggeredFreeSpins and at least 3 scatters that is applied
\* while the game is not in free-spin mode leaves free-spins-remaining non-zero and
\* the feature-symbol-selection overlay open; applied while the game is in
\* free-spin mode it does not open the overlay
TriggersFreeSpins(resp) ==
  resp.scatterWin.triggeredFreeSpins /\ resp.scatterWin.count >= 3

C16_TriggerOpensFeatureSelection ==
  [][\A k \in ApplyingRounds :
       TriggersFreeSpins(rounds[k].resp)
         => IF IsFreeSpinsMode(st)
            THEN st'.showFeatureSymbolSelection = st.showFeatureSymbolSelection
            ELSE st'.freeSpinsRemaining > 0 /\ st'.showFeatureSymbolSelection]_vars

\* C17: the segment selected for a bonus-wheel response carries the label of the
\* server's outcome: "6spins" selects segment 0, "R10" a segment labelled R10,
\* any other result an empty segment; the same holds for the segment shown green
LabelOf(seg) == WheelSegments[seg + 1]

CarriesOutcome(result, seg) ==
  IF result = "6spins" THEN seg = 0
  ELSE IF result = "R10" THEN LabelOf(seg) = "R10"
  ELSE LabelOf(seg) = ""

C17_SegmentCarriesOutcome ==
  /\ \A k \in 1 .. Len(wheels) :
       wheels[k].sel # NoSegment => CarriesOutcome(wheels[k].result, wheels[k].sel)
  /\ st.selectedSegment # NoSegment => CarriesOutcome(st.spinResult, st.selectedSegment)

C17_Witness ==
  /\ Len(wheels) = 2
  /\ wheels[1].result = "6spins" /\ wheels[1].sel = 0
  /\ wheels[2].result = "R10" /\ wheels[2].sel # NoSegment
  /\ st.selectedSegment = wheels[2].sel
  /\ st.spinResult = "R10"

\* C18: the segment chosen is a function of the server's result: two wheel spins
\* that received the same result selected the same segment index
C18_SameResultSameSegment ==
  \A a, b \in 1 .. Len(wheels) :
    (/\ wheels[a].sel # NoSegment
     /\ wheels[b].sel # NoSegment
     /\ wheels[a].result = wheels[b].result)
      => wheels[a].sel = wheels[b].sel

\* C19: when the response of a bonus-wheel spin arrives the displayed balance
\* stays as it is and the response's balance is held pending; the held balance
\* is applied only by the delayed callback that follows the win message, after
\* every answered wheel spin has shown its selected segment and set its message
WheelAnswered(k) == wheels[k].pc = "awaitSpin" /\ wheels'[k].pc = "final"

BalanceReleased == st.pendingBalance # NoBalance /\ st'.pendingBalance = NoBalance

C19_BalanceHeldUntilWinMessage ==
  [][/\ \A k \in 1 .. Len(wheels) :
          (Len(wheels') = Len(wheels) /\ WheelAnswered(k))
            => /\ st'.balance = st.balance
               /\ st'.pendingBalance = wheels'[k].resp.balance
     /\ BalanceReleased
          => /\ FireWheelBalance
             /\ st'.balance = st.pendingBalance
             /\ \A k \in 1 .. Len(wheels) :
                  wheels[k].result # ""
                    => wheels[k].pc = "done" /\ wheels[k].shown /\ wheels[k].notified]_vars

\* C20: for a base-game payline win {paylineIndex p, count c, line L} on display,
\* a cell (r, w) shows the border of payline p only if L[r] = w and r < c
BaseGamePaylineWin(s, line) ==
  /\ line.paylineIndex # -1
  /\ ~Contains(s.featureGameWinningLines, line)

C21_IncompleteConfigRejected ==
  /\ st.config.loaded => RequiredFields \subseteq st.config.fields
  /\ (~st.config.loaded /\ ~st.configLoading) => st.configError # ""
  /\ ~st.config.loaded => (~st.sessionId /\ session = "none" /\ rounds = <<>>)

\* C22: within one round the stagger has marked every reel spinning before the
\* first reel is stopped, reels are stopped in index order, reel i shows the
\* server's column i before its spinning flag is cleared, and after the last
\* stop no reel is spinning
StopsReel(k) ==
  /\ Len(rounds') = Len(rounds)
  /\ rounds[k].pc = "gridDelay"
  /\ rounds'[k] # rounds[k]

StaggerPending(k) ==
  \E t \in 1 .. Len(timers) : timers[t].kind = "stagger" /\ timers[t].id = k

C22_RoundStepsSequenced ==
  [][\A k \in 1 .. Len(rounds) :
       /\ StopsReel(k)
            => /\ ~StaggerPending(k)
               /\ rounds[k].i = 0 => \A j \in Reels : st.spinningReels[j]
               /\ st.grid[rounds[k].i] = rounds[k].resp.grid[rounds[k].i]
               /\ ~st'.spinningReels[rounds[k].i]
               /\ rounds'[k].pc = "stopDelay" => rounds'[k].i = rounds[k].i + 1
               /\ rounds[k].i = NumReels - 1 => \A j \in Reels : ~st'.spinningReels[j]
       /\ (Len(rounds') = Len(rounds) /\ rounds[k].pc \notin {"stopDelay", "gridDelay"}
           /\ rounds'[k].pc = "stopDelay")
            => rounds'[k].i = 0]_vars

\* C23: while some reel-spinning flag is true the displayed winningLines list is
\* empty
C23_NoWinningLinesWhileSpinning ==
  IsSpinning(st) => st.winningLines = <<>>

\* C24: at the moment a round's playGame request is sent, winningLines, the
\* base-game and feature-game line lists, the expanded-reel markers, the
\* expanding and bouncing flags, the win feedback and lastWin hold their cleared
\* values
SendsRequest(k) ==
  /\ Len(rounds') = Len(rounds)
  /\ rounds[k].pc = "yield"
  /\ rounds'[k].pc = "awaitPlay"

TransientCleared(s) ==
  /\ s.winningLines = <<>>
  /\ s.baseGameWinningLines = <<>>
  /\ s.featureGameWinningLines = <<>>
  /\ s.reelsToExpand = <<>>
  /\ ~s.showFeatureGameWins
  /\ s.expandingReels = AllFalse
  /\ s.bouncingReels = AllFalse
  /\ s.winningFeedback = 0
  /\ s.lastWin = 0

C24_ClearedWhenRequestSent ==
  [][\A k \in 1 .. Len(rounds) : SendsRequest(k) => TransientCleared(st)]_vars

\* C25: a reel is replaced by the feature symbol only in a round started in
\* free-spin mode whose response names at least the threshold number of distinct
\* reels to expand; every other round settles on exactly the server's grid
ExpandsReel(k) ==
  /\ Len(rounds') = Len(rounds)
  /\ rounds[k].pc = "expandA"
  /\ rounds'[k].pc = "expandB"

MayExpand(r) ==
  /\ r.fs
  /\ Len(ReelsToExpandArray(r.resp)) >= ExpansionThreshold(r.resp.featureSymbol)

C25_ExpansionOnlyInFreeSpins ==
  [][\A k \in 1 .. Len(rounds) :
       /\ ExpandsReel(k) => MayExpand(rounds[k])
       /\ (k \in ApplyingRounds /\ ~MayExpand(rounds[k])) => st'.grid = rounds[k].resp.grid]_vars

\* C26: the base-game winning lines shown for a round are the response's
\* winningLines with paylineIndex -1 or below the 5 active paylines, in order,
\* plus one scatter entry (paylineIndex -1, payout 0, empty line) exactly when
\* the response indicates a scatter trigger
ActiveWinningLines(resp) ==
  LET Active(line) == line.paylineIndex = -1 \/ line.paylineIndex < 5
  IN SelectSeq(resp.winningLines, Active)

ScatterEntry(resp) ==
  [paylineIndex |-> -1, symbol |-> "Scatter", count |-> resp.scatterWin.count,
   payout |-> 0, line |-> <<>>]

ExpectedBaseLines(resp) ==
  IF resp.scatterWin.triggeredFreeSpins
  THEN Append(ActiveWinningLines(resp), ScatterEntry(resp))
  ELSE ActiveWinningLines(resp)

\* in a round started in free-spin mode the entry is added for any scatter on
\* the grid, unless the scatter is the feature symbol
AmendedBaseLines(r) ==
  IF ~r.fs THEN ExpectedBaseLines(r.resp)
  ELSE IF /\ (r.resp.scatterWin.triggeredFreeSpins \/ r.resp.scatterWin.count > 0)
          /\ r.resp.featureSymbol # "Scatter"
  THEN Append(ActiveWinningLines(r.resp), ScatterEntry(r.resp))
  ELSE ActiveWinningLines(r.resp)

\* the round sets its base-game lines at the end of the settle delay; a round
\* started in free-spin mode with nothing to show leaves the list as it is
ShowsBaseLines(k) ==
  /\ Len(rounds') = Len(rounds)
  /\ rounds[k].pc = "settle"
  /\ rounds'[k] # rounds[k]
  /\ ~(rounds'[k].pc = "done" /\ rounds'[k].outcome = "cancelled")
  /\ (~rounds[k].fs \/ AmendedBaseLines(rounds[k]) # <<>>)

C26_BaseLinesFilteredPlusScatter ==
  [][\A k \in 1 .. Len(rounds) :
       ShowsBaseLines(k) => st'.winningLines = ExpectedBaseLines(rounds[k].resp)]_vars

\* C26 amended: as above outside free-spin mode; in a round started in free-spin
\* mode the scatter entry is added exactly when the response reports a trigger
\* or at least one scatter and the feature symbol is not the scatter
C26_BaseLinesByMode ==
  [][\A k \in 1 .. Len(rounds) :
       ShowsBaseLines(k) => st'.winningLines = AmendedBaseLines(rounds[k])]_vars

C26_Witness ==
  /\ IsFreeSpinsMode(st)
  /\ Len(st.winningLines) = 2
  /\ st.winningLines[1] = BaseLine
  /\ st.winningLines[2].paylineIndex = -1
  /\ st.winningLines[2].count = 2

\* C27: every playGame request carries numPaylines = 5 and betPerPayline =
\* betAmount / 5; it carries the pending bonus-spin count only when the round
\* starts outside free-spin mode with a positive count, and never while free
\* spins are active
StartsRound(k) ==
  /\ Len(rounds') >= k
  /\ Len(rounds) < k

C27_RequestContents ==
  [][\A k \in 1 .. Len(rounds') :
       /\ StartsRound(k) =>
            IF ~IsFreeSpinsMode(st) /\ st.actionGameSpins > 0
            THEN PlayRequest(rounds'[k]).actionGameSpins = st.actionGameSpins
            ELSE PlayRequest(rounds'[k]).actionGameSpins = Absent
       /\ (k <= Len(rounds) /\ SendsRequest(k)) =>
            LET req == PlayRequest(rounds[k])
            IN /\ req.numPaylines = 5
               /\ req.betPerPayline.num = req.betAmount
               /\ req.betPerPayline.den = 5
               /\ IsFreeSpinsMode(st) => req.actionGameSpins = Absent]_vars

C27_Witness ==
  \E k \in 1 .. Len(rounds) :
    /\ rounds[k].pc = "awaitPlay"
    /\ PlayRequest(rounds[k]).actionGameSpins > 0

C27_FreeSpinWitness ==
  \E k \in 1 .. Len(rounds) :
    /\ rounds[k].pc = "awaitPlay"
    /\ rounds[k].fs
    /\ rounds[k].ags > 0

\* C28: while free-spins-remaining is positive the bonus wheel overlay is not
\* open: bonus spins won during free spins or together with a free-spin trigger
\* only accumulate
C28_NoWheelDuringFreeSpins ==
  st.freeSpinsRemaining > 0 => ~st.showActionWheel

\* C29: at most one spinActionGame request is in flight, and a wheel spin starts
\* only while no wheel spin is in progress and the bonus-spin count is positive
WheelRequestsInFlight == { k \in 1 .. Len(timers) : timers[k].kind = "wheelNet" }

WheelSpinInProgress == \E k \in 1 .. Len(wheels) : wheels[k].pc # "done"

C29_OneWheelRequest ==
  Cardinality(WheelRequestsInFlight) <= 1

C29_NoSpinWhileSpinning ==
  [][Len(wheels') > Len(wheels) => (~WheelSpinInProgress /\ st.actionGameSpins > 0)]_vars

\* C30: in each bonus-wheel spin the spinActionGame request is issued before the
\* fixed cycling steps have finished, and the approach that follows the answer
\* ends on a segment for the server's result
SendsWheelRequest(k) ==
  /\ wheels[k].pc = "cycle"
  /\ wheels'[k].pc = "awaitSpin"

ApproachEnds(k) ==
  /\ wheels[k].pc = "final"
  /\ wheels'[k].pc = "hold"

C30_RequestDuringCycling ==
  [][\A k \in 1 .. Len(wheels) :
       /\ SendsWheelRequest(k) => wheels[k].i + 1 < TotalSteps
       /\ ApproachEnds(k) => CarriesOutcome(wheels[k].resp.result, wheels[k].sel)]_vars

\* C31: when a spinActionGame request fails the wheel stops spinning and stays
\* open, the bonus-spin count, the accumulated win and the balance are
\* unchanged, no win callback is invoked, the request is not sent again, and the
\* player is notified of the failure
WheelRequestFails(k) ==
  /\ wheels[k].pc = "awaitSpin"
  /\ wheels'[k].pc = "done"

WheelFailureContained(k) ==
  /\ ~st'.wheelSpinning
  /\ st'.showActionWheel = st.showActionWheel
  /\ st'.actionGameSpins = st.actionGameSpins
  /\ st'.accumulatedActionWin = st.accumulatedActionWin
  /\ st'.balance = st.balance
  /\ st'.pendingBalance = st.pendingBalance
  /\ ~wheels'[k].notified
  /\ Cardinality({ j \in 1 .. Len(timers') : timers'[j].kind = "wheelNet" })
       < Cardinality(WheelRequestsInFlight)

C31_WheelFailureSurfaced ==
  [][\A k \in 1 .. Len(wheels) :
       WheelRequestFails(k) => (WheelFailureContained(k) /\ st'.toast # "")]_vars

\* C32: each opening of the feature-symbol-selection overlay runs its timeline
\* to the end: when the cycling ticks are over the symbol shown is the selected
\* symbol, the completion callback is then invoked exactly once and closes the
\* overlay, and the overlay changes no balance, free-spin or bonus-spin value
PendingOf(ts, kinds) == { k \in 1 .. Len(ts) : ts[k].kind \in kinds }

CyclingEnds ==
  /\ Cardinality(PendingOf(timers', {"featureCycle"})) < Cardinality(PendingOf(timers, {"featureCycle"}))
  /\ Cardinality(PendingOf(timers', {"featureReveal"})) > Cardinality(PendingOf(timers, {"featureReveal"}))

CompletionInvoked ==
  Cardinality(PendingOf(timers', {"featureSelection"}))
    < Cardinality(PendingOf(timers, {"featureSelection"}))

\* an open overlay has a step of its timeline pending and at most one
\* completion ahead; a closed one has nothing pending
TimelineRuns(s, ts) ==
  IF s.showFeatureSymbolSelection
  THEN /\ PendingOf(ts, {"featureCycle", "featureReveal", "featureSelection"}) # {}
       /\ Cardinality(PendingOf(ts, {"featureReveal", "featureSelection"})) <= 1
  ELSE PendingOf(ts, {"featureCycle", "featureReveal", "featureSelection"}) = {}

C32_SelectionRunsToCompletion ==
  [][/\ TimelineRuns(st', timers')
     /\ CyclingEnds => (st'.spinningSymbol = st.selectedFeatureSymbol /\ st.selectedFeatureSymbol # "")
     /\ CompletionInvoked =>
          /\ st.showFeatureSymbolSelection
          /\ ~st'.showFeatureSymbolSelection
          /\ st.spinningSymbol = st.selectedFeatureSymbol
          /\ st.showSymbol
          /\ st'.balance = st.balance
          /\ st'.freeSpinsRemaining = st.freeSpinsRemaining
          /\ st'.actionGameSpins = st.actionGameSpins]_vars

\* ----------------------------------------------------------------- progress
\* keyboard play in which the browser runs every due callback and the server
\* answers every request: timers, time and responses are not postponed forever
SpecLive == Init /\ [][Next]_vars /\ WF_vars(Timed)

\* C33: when the server answers every request and the player gives no further
\* input, the is-busy flag becomes false again and spin() no longer rejects a
\* request as busy, whether the rounds were applied, failed or cancelled
SpinAcceptedAgain(s) == ~IsAnimating(s) /\ SpinVerdict(s) # "busy"

C33_BusyEventuallyClears == []<>SpinAcceptedAgain(st)

\* ------------------------------------------------------------ the API client
\* GameApiService on its own: calls are made, and the fetch of each call gets
\* its HTTP response or fails on the network
MaxCalls == 2

ApiOperations == {"playGame", "spinActionGame", "getSession", "resetSession"}

ErrorStatuses == {400, 500}

\* Response.statusText of the error statuses
StatusText == [c \in ErrorStatuses |-> IF c = 400 THEN "Bad Request" ELSE "Internal Server Error"]

\* the template string `HTTP error! status: ${response.status}`
StatusLine == [c \in ErrorStatuses |-> IF c = 400 THEN "HTTP error! status: 400" ELSE "HTTP error! status: 500"]

\* a field the JSON body does not have
Undefined == "undefined"

\* a field of a JSON error body: missing, the empty string, or a text
MessageTexts == {Undefined, "", "session not found"}
DetailTexts == {Undefined, "", "validation failed"}

\* bodies of a response: text that is not JSON, the JSON value null, or a JSON
\* object with optional message and detail
HttpBodies ==
  {[kind |-> "text", message |-> Undefined, detail |-> Undefined],
   [kind |-> "null", message |-> Undefined, detail |-> Undefined]}
    \cup { [kind |-> "object", message |-> m, detail |-> d] : m \in MessageTexts, d \in DetailTexts }

HttpResponses ==
  { [ok |-> FALSE, status |-> c, body |-> b] : c \in ErrorStatuses, b \in HttpBodies }
    \cup { [ok |-> TRUE, status |-> 200, body |-> b] :
             b \in {[kind |-> "object", message |-> Undefined, detail |-> Undefined],
                    [kind |-> "text", message |-> Undefined, detail |-> Undefined]} }

NoHttp == [ok |-> FALSE, status |-> 0, body |-> [kind |-> "none", message |-> Undefined, detail |-> Undefined]]

\* JavaScript truthiness of a field that is missing or a string
Truthy(x) == x # Undefined /\ x # ""

\* mutant: detail preferred to message
ErrorMessageDetailFirst(resp) ==
  IF resp.body.kind = "null" THEN "Cannot read properties of null"
  ELSE LET errorData == IF resp.body.kind = "object" THEN resp.body
                        ELSE [kind |-> "object", message |-> Undefined, detail |-> Undefined]
       IN IF Truthy(errorData.detail) THEN errorData.detail
          ELSE IF Truthy(errorData.message) THEN errorData.message
          ELSE StatusLine[resp.status]

\* the message of the Error thrown for a response that is not ok:
\* response.json().catch(() => ({})) and then message || detail || status line;
\* reading .message of null throws a TypeError instead
ErrorMessage(resp) ==
  IF resp.body.kind = "null" THEN "Cannot read properties of null"
  ELSE LET errorData == IF resp.body.kind = "object" THEN resp.body
                        ELSE [kind |-> "object", message |-> Undefined, detail |-> Undefined]
       IN IF Truthy(errorData.message) THEN errorData.message
          ELSE IF Truthy(errorData.detail) THEN errorData.detail
          ELSE StatusLine[resp.status]

\* a call of one of the four operations: makeRequest builds the options and
\* awaits its one fetch
ApiCall ==
  /\ Len(api) < MaxCalls
  /\ \E op \in ApiOperations :
       api' = Append(api, [op |-> op,
                           method |-> IF op = "getSession" THEN "GET" ELSE "POST",
                           fetches |-> 1,
                           pc |-> "fetching",
                           response |-> NoHttp,
                           message |-> ""])
  /\ UNCHANGED <<st, rounds, timers, session, wheels>>

\* the fetch of call k resolves with a response: an ok response is parsed and
\* returned (a body that is not JSON rejects the parse), any other throws
ApiResponds ==
  /\ \E k \in 1 .. Len(api), resp \in HttpResponses :
       /\ api[k].pc = "fetching"
       /\ api' = [api EXCEPT ![k] =
            IF resp.ok
            THEN IF resp.body.kind = "object"
                 THEN [@ EXCEPT !.pc = "resolved", !.response = resp]
                 ELSE [@ EXCEPT !.pc = "rejected", !.response = resp, !.message = "Unexpected token"]
            ELSE [@ EXCEPT !.pc = "rejected", !.response = resp, !.message = ErrorMessage(resp)]]
  /\ UNCHANGED <<st, rounds, timers, session, wheels>>

\* the fetch of call k fails on the network: the rejection passes through
ApiFetchFails ==
  /\ \E k \in 1 .. Len(api) :
       /\ api[k].pc = "fetching"
       /\ api' = [api EXCEPT ![k] = [@ EXCEPT !.pc = "rejected", !.message = "Failed to fetch"]]
  /\ UNCHANGED <<st, rounds, timers, session, wheels>>

NextApi ==
  \/ ApiCall
  \/ ApiResponds
  \/ ApiFetchFails

SpecApi == Init /\ [][NextApi]_vars

\* calls rejected for a response that is not ok
RejectedForStatus == { k \in 1 .. Len(api) : api[k].pc = "rejected" /\ api[k].response.status \in ErrorStatuses }

\* a call has made one fetch, and once settled it does nothing more
OneFetchEach ==
  /\ \A k \in 1 .. Len(api') : api'[k].fetches = 1
  /\ Len(api') >= Len(api)
  /\ \A k \in 1 .. Len(api) : api[k].pc # "fetching" => api'[k] = api[k]

\* C34 as stated: for a response that is not ok the Error's message is the
\* body's message, else the body's detail, else the HTTP status text, also
\* when the body is not JSON; every call performs exactly one fetch
C34_MessageElseDetailElseStatusText ==
  \A k \in RejectedForStatus :
    LET body == api[k].response.body
    IN api[k].message = IF body.message # Undefined THEN body.message
                        ELSE IF body.detail # Undefined THEN body.detail
                        ELSE StatusText[api[k].response.status]

\* C34: for a response that is not ok, whose body is a JSON object or is not
\* JSON, the Error's message is the body's non-empty message, else its
\* non-empty detail, else "HTTP error! status: " followed by the status code;
\* every call performs exactly one fetch and a settled call is never retried
C34_MessageElseDetailElseStatusLine ==
  /\ [](\A k \in RejectedForStatus :
          LET body == api[k].response.body
          IN body.kind # "null" =>
               api[k].message = IF Truthy(body.message) THEN body.message
                                ELSE IF Truthy(body.detail) THEN body.detail
                                ELSE StatusLine[api[k].response.status])
  /\ [][OneFetchEach]_vars

\* a call rejected with the status line for a body that is not JSON, next to
\* one rejected with the detail of its body
C34_Witness ==
  /\ \E k \in RejectedForStatus :
       api[k].response.body.kind = "text" /\ api[k].message = StatusLine[api[k].response.status]
  /\ \E k \in RejectedForStatus :
       api[k].response.body.message = "" /\ api[k].message = "validation failed"

\* ----------------------------------------------------------------- bet menu
\* the bet menu on its own: config.betAmounts and Home's betAmount, changed by
\* the arrow keys and the bet buttons
MaxBetValue == 4
MaxMenuLen == 3

\* useBetAmounts() before the configuration is loaded
DefaultBetAmounts == <<1, 2, 3, 5, 10>>

\* menus of distinct amounts
BetMenus ==
  UNION { { m \in [1 .. n -> 1 .. MaxBetValue] : \A i, j \in 1 .. n : m[i] = m[j] => i = j } :
          n \in 1 .. MaxMenuLen }

\* Array.prototype.indexOf: the first 0-based index holding x, or -1
IndexOf(arr, x) ==
  IF \E k \in 1 .. Len(arr) : arr[k] = x
  THEN MinOf({ k \in 1 .. Len(arr) : arr[k] = x }) - 1
  ELSE -1

\* mutant: no wrap from the first entry to the last
HandleDecreaseBetNoWrap(s) ==
  LET currentIndex == IndexOf(s.betAmounts, s.betAmount)
  IN IF currentIndex = -1
     THEN [s EXCEPT !.betAmount = s.betAmounts[1]]
     ELSE LET prevIndex == IF currentIndex = 0 THEN 0 ELSE currentIndex - 1
          IN [s EXCEPT !.betAmount = s.betAmounts[prevIndex + 1]]

HandleIncreaseBet(s) ==
  LET currentIndex == IndexOf(s.betAmounts, s.betAmount)
  IN IF ~s.config.loaded THEN s
     ELSE IF currentIndex = -1
     THEN [s EXCEPT !.betAmount = s.betAmounts[1]]
     ELSE LET nextIndex == (currentIndex + 1) % Len(s.betAmounts)
          IN [s EXCEPT !.betAmount = s.betAmounts[nextIndex + 1]]

HandleDecreaseBet(s) ==
  LET currentIndex == IndexOf(s.betAmounts, s.betAmount)
  IN IF ~s.config.loaded THEN s
     ELSE IF currentIndex = -1
     THEN [s EXCEPT !.betAmount = s.betAmounts[1]]
     ELSE LET prevIndex == IF currentIndex = 0 THEN Len(s.betAmounts) - 1 ELSE currentIndex - 1
          IN [s EXCEPT !.betAmount = s.betAmounts[prevIndex + 1]]

\* Home mounts before or after the configuration arrives: betAmount starts as
\* the first entry of the default menu or of the configured one
InitBet ==
  /\ \E menu \in BetMenus, first \in {DefaultBetAmounts[1]} :
       \E b \in {first, menu[1]} :
         st = [InitSt EXCEPT !.betAmounts = menu, !.betAmount = b]
  /\ rounds = <<>>
  /\ timers = <<>>
  /\ session = "done"
  /\ wheels = <<>>
  /\ api = <<>>

\* ArrowUp, and the "+" button
KeyArrowUp ==
  /\ ~IsSpinning(st)
  /\ ~IsFreeSpinsMode(st)
  /\ st' = HandleIncreaseBet(st)
  /\ UNCHANGED <<rounds, timers, session, wheels, api>>

\* ArrowDown, and the "-" button
KeyArrowDown ==
  /\ ~IsSpinning(st)
  /\ ~IsFreeSpinsMode(st)
  /\ st' = HandleDecreaseBet(st)
  /\ UNCHANGED <<rounds, timers, session, wheels, api>>

NextBet ==
  \/ KeyArrowUp
  \/ KeyArrowDown

SpecBet == InitBet /\ [][NextBet]_vars

RECURSIVE Increases(_, _)
Increases(s, n) == IF n = 0 THEN s ELSE Increases(HandleIncreaseBet(s), n - 1)

InMenu(s) == IndexOf(s.betAmounts, s.betAmount) # -1

OverlayOpen(s) == s.showActionWheel \/ s.showFeatureSymbolSelection

C36_NoPlayWhileOverlayOpen ==
  [][OverlayOpen(st) =>
       /\ Len(rounds') = Len(rounds)
       /\ \A k \in 1 .. Len(rounds) : ~SendsRequest(k)
       /\ st.showActionWheel =>
            KeySVerdict(st) = IF st.actionGameSpins > 0 THEN "wheel" ELSE "ignored"]_vars

\* --------------------------------------------------- bonus wheel, progress
\* bonus play in which every due callback runs, the server answers, and the
\* player, after one reel spin, presses the spin key whenever it would spin the
\* wheel
MaxLiveRounds == 1

KeySpinLive == KeySpinWithin(MaxLiveRounds)

WheelRuns ==
  \/ FireSpinTimer
  \/ FireStagger
  \/ FireBounce
  \/ FireFeatureCycle
  \/ FireFeatureReveal
  \/ FireFeatureSelection
  \/ AdvanceTime
  \/ PlayResolvesBonus
  \/ SessionResolvesBonus
  \/ FireWheelStep
  \/ WheelResolves
  \/ WheelRejects
  \/ FireWheelBalance
  \/ FireWheelMessage
  \/ FireWheelClose
  \/ FireWheelClear

NextWheelLive ==
  \/ KeySpinLive
  \/ KeyWheel
  \/ WheelRuns

SpecWheelLive ==
  Init /\ [][NextWheelLive]_vars /\ WF_vars(WheelRuns) /\ WF_vars(KeyWheel)

\* the spin key can start no further wheel spin within the bounds
WheelSpinsExhausted == Len(wheels) >= MaxWheelSpins \/ Len(rounds) >= MaxRounds

\* C37: an open bonus wheel eventually closes, given that the player spins it
\* while spins remain and the server answers, also when it opened with 0 bonus
\* spins and a positive accumulated win
C37_WheelEventuallyCloses ==
  st.showActionWheel ~> (~st.showActionWheel \/ WheelSpinsExhausted)

\* ------------------------------------------------------- balance ordering
\* a server that charges the bet per request in the order the requests were
\* issued: the response to round id carries the balance after id bets
ServerBalance(id) == DefaultBalance - id * TotalBet

OrderedPlayResponses(id) ==
  { [Resp(0, 0, FALSE, "", 0, FALSE, FALSE, FALSE, g) EXCEPT !.balance = ServerBalance(id)]
      : g \in {GridA, GridB} }

PlayResolvesOrdered ==
  /\ UNCHANGED api
  /\ UNCHANGED wheels
  /\ HasDue(timers)
  /\ timers[FirstDue(timers)].kind = "net"
  /\ \E resp \in OrderedPlayResponses(timers[FirstDue(timers)].id) : PlayResolvesWith(resp)
  /\ UNCHANGED session

NextBalance ==
  \/ KeySpin
  \/ ToggleTurbo
  \/ FireSpinTimer
  \/ FireStagger
  \/ FireBounce
  \/ AdvanceTime
  \/ PlayResolvesOrdered
  \/ PlayRejects
  \/ SessionResolves

SpecBalance == Init /\ [][NextBalance]_vars

\* every request answered, every round and timer finished
Settled == AllDone /\ timers = <<>> /\ session # "pending"

Answered(r) == r.pc = "done" /\ r.outcome \in {"applied", "cancelled"}

AppliesBalance(k) ==
  /\ Len(rounds') = Len(rounds)
  /\ rounds[k].pc # "done"
  /\ rounds'[k].pc = "done"
  /\ rounds'[k].outcome = "applied"

\* C38: once everything has settled, the balance shown is the balance of the
\* response to the most recently issued request, and no response's balance is
\* applied after the balance of a later request's response
C38_BalanceOfLatestRequest ==
  /\ []((Settled /\ rounds # <<>> /\ Answered(rounds[Len(rounds)]))
          => st.balance = ServerBalance(Len(rounds)))
  /\ [][\A k \in 1 .. Len(rounds) :
          AppliesBalance(k) => \A j \in 1 .. Len(rounds) : j > k => rounds[j].outcome # "applied"]_vars

====
